---------------------------- MODULE Spec2Model ----------------------------
(***************************************************************************)
(* Obligation extraction pipeline of obligation-to-jira-poc.               *)
(*                                                                         *)
(*   app/services/chunker.py               chunk_text                      *)
(*   app/services/obligation_extractor.py  ObligationTracker,              *)
(*                                         process_chunk,                  *)
(*                                         extract_obligation_from_chunks  *)
(*                                                                         *)
(* Python strings are sequences of one-character strings.  A JSON object   *)
(* is a record; a missing key is a missing field.  The asyncio event loop  *)
(* runs one coroutine at a time and switches only at an await, so every    *)
(* action below is the code between two awaits of one coroutine.           *)
(***************************************************************************)
EXTENDS Integers, Sequences, FiniteSets, TLC

(***************************************************************************)
(* Bounds of the model.                                                    *)
(***************************************************************************)
\* Largest number of chunks handed to extract_obligation_from_chunks.
MaxChunks == 6
\* Largest number of chunks of one run with an LLM attempt that does not end
\* in a result (exception, "null" sentinel, unparsable or ill-shaped JSON).
MaxFaulty == 1
\* Largest number of lines of a document handed to chunk_text.
MaxLines == 3
\* Largest max_tokens chunk_text is called with.
MaxTokens == 2
\* Largest number of tracker calls made by the runs of the tracker model.
MaxCalls == 3
\* The requests the application receives, and the pages and page sizes a
\* client asks for.
MaxRequests == 3
MaxPage == 2
MaxPageSize == 2

(***************************************************************************)
(* Program constants.                                                      *)
(***************************************************************************)
BATCH_SIZE == 5
MAX_RETRIES == 3

(***************************************************************************)
(* str.lower, str.upper, str.strip, str.title                              *)
(***************************************************************************)
UpperCase ==
  <<"A","B","C","D","E","F","G","H","I","J","K","L","M",
    "N","O","P","Q","R","S","T","U","V","W","X","Y","Z">>

LowerCase ==
  <<"a","b","c","d","e","f","g","h","i","j","k","l","m",
    "n","o","p","q","r","s","t","u","v","w","x","y","z">>

Whitespace == {" ", "\n", "\t"}

\* str.lower and str.upper on one character, as tables
ToLower ==
  [ch \in {UpperCase[k] : k \in 1..Len(UpperCase)} |->
     LowerCase[CHOOSE k \in 1..Len(UpperCase) : UpperCase[k] = ch]]

ToUpper ==
  [ch \in {LowerCase[k] : k \in 1..Len(LowerCase)} |->
     UpperCase[CHOOSE k \in 1..Len(LowerCase) : LowerCase[k] = ch]]

IsCased(ch) == ch \in DOMAIN ToLower \/ ch \in DOMAIN ToUpper

LowerChar(ch) == IF ch \in DOMAIN ToLower THEN ToLower[ch] ELSE ch

UpperChar(ch) == IF ch \in DOMAIN ToUpper THEN ToUpper[ch] ELSE ch

\* s.lower()
Lower(s) == [k \in 1..Len(s) |-> LowerChar(s[k])]

\* s.strip(): leading and trailing whitespace removed
Strip(s) ==
  LET inked == {k \in 1..Len(s) : s[k] \notin Whitespace} IN
  IF inked = {} THEN <<>>
  ELSE LET lo == CHOOSE k \in inked : \A j \in inked : k <= j
           hi == CHOOSE k \in inked : \A j \in inked : k >= j
       IN SubSeq(s, lo, hi)

\* s.title(): a cased character is upper-cased after an uncased one (or at
\* the start) and lower-cased after a cased one
Title(s) ==
  [k \in 1..Len(s) |->
     IF k = 1 \/ ~IsCased(s[k-1]) THEN UpperChar(s[k]) ELSE LowerChar(s[k])]

(***************************************************************************)
(* hash(str).  CPython's hash is 64 bits wide; the model keeps a positional *)
(* code modulo HashModulus, which like CPython's hash is a function of the *)
(* characters alone and tells apart all the texts of the model.            *)
(***************************************************************************)
CharTable == UpperCase \o LowerCase \o <<" ", "\n", "\t", "$", "{">>

CharCode ==
  [ch \in {CharTable[k] : k \in 1..Len(CharTable)} |->
     CHOOSE k \in 1..Len(CharTable) : CharTable[k] = ch]

HashModulus == 2^24

RECURSIVE Hash(_)
Hash(s) ==
  IF s = <<>> THEN 0
  ELSE (Hash(SubSeq(s, 1, Len(s) - 1)) * 64 + CharCode[s[Len(s)]]) % HashModulus

(***************************************************************************)
(* ObligationTracker                                                       *)
(***************************************************************************)
\* ObligationTracker.__init__
NewTracker == [seen_obligations |-> {}, party_names |-> [k \in {} |-> <<>>]]

\* is_duplicate keyed on the text as written, case and blanks included.
TextHashAsWritten(obligation_text) == Hash(obligation_text)

\* The key is_duplicate looks up and records.
TextHash(obligation_text) == Hash(Strip(Lower(obligation_text)))

\* is_duplicate without line 24: the key is looked up and never recorded.
CheckWithoutRecording(tracker, text_hash) ==
  [ret |-> text_hash \in tracker.seen_obligations, tracker |-> tracker]

\* Lines 22-25 of is_duplicate for the key text_hash: the returned value
\* and the tracker after the call.
CheckAndRecord(tracker, text_hash) ==
  IF text_hash \in tracker.seen_obligations
    THEN [ret |-> TRUE, tracker |-> tracker]
    ELSE [ret |-> FALSE,
          tracker |-> [tracker EXCEPT
                         !.seen_obligations = @ \cup {text_hash}]]

\* ObligationTracker.is_duplicate
is_duplicate(tracker, obligation_text) ==
  CheckAndRecord(tracker, TextHash(obligation_text))

\* The key standardize_party_name looks up and records.
PartyKey(name) == Strip(Lower(name))

\* standardize_party_name without the test of line 30: every call stores
\* the Title Case of the name it is given.
StoreAlways(tracker, key, name) ==
  [ret |-> Title(name),
   tracker |-> [tracker EXCEPT !.party_names =
                  [k \in DOMAIN @ \cup {key} |->
                     IF k = key THEN Title(name) ELSE @[k]]]]

\* Lines 30-33 of standardize_party_name for the key: the returned value and
\* the tracker after the call.
LookupOrStore(tracker, key, name) ==
  IF key \in DOMAIN tracker.party_names
    THEN [ret |-> tracker.party_names[key], tracker |-> tracker]
    ELSE [ret |-> Title(name),
          tracker |-> [tracker EXCEPT !.party_names =
                         [k \in DOMAIN @ \cup {key} |->
                            IF k = key THEN Title(name) ELSE @[k]]]]

\* ObligationTracker.standardize_party_name
standardize_party_name(tracker, name) ==
  LookupOrStore(tracker, PartyKey(name), name)

(***************************************************************************)
(* process_chunk: the code run on one LLM response, lines 54-83.           *)
(***************************************************************************)
None == [None |-> TRUE]

HasKey(obj, key) == key \in DOMAIN obj

\* {"section": section, **ob}: the section of the answer, when it has one,
\* is kept.
WithSectionUnlessGiven(ob, section) ==
  [k \in DOMAIN ob \cup {"section"} |-> IF k \in DOMAIN ob THEN ob[k] ELSE section]

\* {**ob, "section": section}
WithSection(ob, section) ==
  [k \in DOMAIN ob \cup {"section"} |-> IF k = "section" THEN section ELSE ob[k]]

\* The comprehension of lines 70-74 keeping every obligation, duplicate or
\* not.
KeepAlways(acc, ob, section, dup) ==
  [raised |-> FALSE,
   obligations |-> Append(acc.obligations, WithSection(ob, section)),
   tracker |-> dup.tracker]

\* One element of the list comprehension of lines 70-74: dup is what
\* is_duplicate returned for ob.
KeepUnlessDuplicate(acc, ob, section, dup) ==
  [raised |-> FALSE,
   obligations |-> IF dup.ret THEN acc.obligations
                   ELSE Append(acc.obligations, WithSection(ob, section)),
   tracker |-> dup.tracker]

\* The list comprehension of lines 70-74 over obligations, from acc (the
\* obligations kept so far and the tracker): the kept obligations and the
\* tracker afterwards; raised when an obligation has no "obligation_text"
\* (KeyError), the tracker keeping what was recorded before.
RECURSIVE FilterObligations(_, _, _)
FilterObligations(obligations, section, acc) ==
  IF obligations = <<>> THEN acc
  ELSE IF ~HasKey(Head(obligations), "obligation_text")
    THEN [acc EXCEPT !.raised = TRUE]
  ELSE FilterObligations(
         Tail(obligations), section,
         KeepUnlessDuplicate(
           acc, Head(obligations), section,
           is_duplicate(acc.tracker, Head(obligations).obligation_text)))

\* Lines 62-74 for one party: std is what standardize_party_name returned
\* for its name.
ProcessParty(party, section, std) ==
  IF HasKey(party, "obligations")
    THEN FilterObligations(
           party.obligations, section,
           [raised |-> FALSE, obligations |-> <<>>, tracker |-> std.tracker])
    ELSE [raised |-> FALSE, obligations |-> <<>>, tracker |-> std.tracker]

\* The party as lines 63 and 70 leave it: flt is what the list comprehension
\* gave.
PartyAfter(acc, party, std, flt) ==
  [raised |-> flt.raised,
   parties |->
     Append(acc.parties,
            IF HasKey(party, "obligations")
              THEN [party EXCEPT !.name = std.ret, !.obligations = flt.obligations]
              ELSE [party EXCEPT !.name = std.ret]),
   tracker |-> flt.tracker]

StandardizeAndFilter(acc, party, section, std) ==
  PartyAfter(acc, party, std, ProcessParty(party, section, std))

\* The loop of lines 60-80 over result["parties"], from acc (the parties
\* done so far and the tracker); raised when a party has no "name" or the
\* list comprehension raised.
RECURSIVE ProcessParties(_, _, _)
ProcessParties(parties, section, acc) ==
  IF parties = <<>> \/ acc.raised THEN acc
  ELSE IF ~HasKey(Head(parties), "name")
    THEN [acc EXCEPT !.raised = TRUE]
  ELSE ProcessParties(
         Tail(parties), section,
         StandardizeAndFilter(
           acc, Head(parties), section,
           standardize_party_name(acc.tracker, Head(parties).name)))

\* content.strip().lower() != "null", negated
IsNullSentinel(content) ==
  /\ HasKey(content, "raw")
  /\ Lower(Strip(content.raw)) = <<"n", "u", "l", "l">>

\* json.loads(content): text that is not JSON raises
JsonLoads(content) ==
  IF HasKey(content, "json")
    THEN [raised |-> FALSE, value |-> content.json]
    ELSE [raised |-> TRUE, value |-> None]

\* Lines 59-83 for a parsed result with "parties": p is what the loop over
\* the parties gave.
AfterParties(result, p) ==
  IF p.raised
    THEN [kind |-> "except", result |-> None, tracker |-> p.tracker]
    ELSE [kind |-> "return",
          result |-> [result EXCEPT !.parties = p.parties],
          tracker |-> p.tracker]

\* Lines 56-83 for the value json.loads gave.
HandleResult(chunk, tracker, loaded) ==
  IF loaded.raised
    THEN [kind |-> "except", result |-> None, tracker |-> tracker]
  ELSE IF ~HasKey(loaded.value, "parties")
    THEN [kind |-> "return", result |-> loaded.value, tracker |-> tracker]
  ELSE AfterParties(
         loaded.value,
         ProcessParties(loaded.value.parties, chunk.section_number,
                        [raised |-> FALSE, parties |-> <<>>, tracker |-> tracker]))

\* One pass through the try block of process_chunk once the LLM call has
\* returned or raised: "return" with the result, "null" when the body falls
\* through to the next iteration of the attempt loop, "except" when the
\* except clause is entered.
Attempt(chunk, tracker, outcome) ==
  IF HasKey(outcome, "exc")
    THEN [kind |-> "except", result |-> None, tracker |-> tracker]
  ELSE IF IsNullSentinel(outcome.content)
    THEN [kind |-> "null", result |-> None, tracker |-> tracker]
  ELSE HandleResult(chunk, tracker, JsonLoads(outcome.content))

(***************************************************************************)
(* extract_obligation_from_chunks: the merge of lines 119-136.             *)
(***************************************************************************)
\* Position of party_name in the insertion-ordered dict merged_results, 0
\* when absent.
BucketOf(merged, party_name) ==
  IF \E k \in 1..Len(merged) : merged[k].name = party_name
    THEN CHOOSE k \in 1..Len(merged) : merged[k].name = party_name
    ELSE 0

\* A bucket created for every party met, present or not.
WithBucketAlways(merged, party_name) ==
  Append(merged, [name |-> party_name, obligations |-> <<>>])

\* A bucket created when absent, put before the others.
WithBucketInFront(merged, party_name) ==
  IF \E k \in 1..Len(merged) : merged[k].name = party_name
    THEN merged
    ELSE <<[name |-> party_name, obligations |-> <<>>]>> \o merged

\* Lines 126-130: the bucket of party_name is created when absent.
WithBucket(merged, party_name) ==
  IF BucketOf(merged, party_name) = 0
    THEN Append(merged, [name |-> party_name, obligations |-> <<>>])
    ELSE merged

\* Line 131: raised when the party has no "obligations" (KeyError).
ExtendBucket(acc, party, b) ==
  IF ~HasKey(party, "obligations")
    THEN [acc EXCEPT !.raised = TRUE]
    ELSE [acc EXCEPT !.merged[b].obligations = @ \o party.obligations]

\* Lines 125-131 for one party.
MergeParty(merged, party) ==
  ExtendBucket([raised |-> FALSE, merged |-> merged], party,
               BucketOf(merged, party.name))

\* Lines 124-132 for the parties of one result.
RECURSIVE MergeParties(_, _)
MergeParties(acc, parties) ==
  IF parties = <<>> \/ acc.raised THEN acc
  ELSE MergeParties(
         MergeParty(WithBucket(acc.merged, Head(parties).name), Head(parties)),
         Tail(parties))

\* Lines 122-132 over results.
RECURSIVE MergeResults(_, _)
MergeResults(acc, results) ==
  IF results = <<>> \/ acc.raised THEN acc
  ELSE MergeResults(
         IF HasKey(Head(results), "parties")
           THEN MergeParties(acc, Head(results).parties)
           ELSE acc,
         Tail(results))

(***************************************************************************)
(* chunker.py                                                              *)
(***************************************************************************)
\* s[n:]
Drop(s, n) == SubSeq(s, n + 1, Len(s))

StartsWith(s, prefix) ==
  Len(s) >= Len(prefix) /\ SubSeq(s, 1, Len(prefix)) = prefix

\* Number of leading characters of s that lie in set.
LeadingCount(s, set) ==
  IF \E k \in 1..Len(s) : s[k] \notin set
    THEN (CHOOSE k \in 1..Len(s) :
            s[k] \notin set /\ \A j \in 1..(k - 1) : s[j] \in set) - 1
    ELSE Len(s)

\* The labels of section_pattern: (?:Section|SECTION|Art\.|ARTICLE)
SectionLabels ==
  {<<"S", "e", "c", "t", "i", "o", "n">>,
   <<"S", "E", "C", "T", "I", "O", "N">>,
   <<"A", "r", "t", ".">>,
   <<"A", "R", "T", "I", "C", "L", "E">>}

\* [\d\.]
NumeralChars == {"0", "1", "2", "3", "4", "5", "6", "7", "8", "9", "."}

\* \s*[:\-]?\s*(.+)?$ on what follows the numeral: group 2, stripped, or ''
TitleAfter(rest) ==
  Strip(IF rest # <<>> /\ rest[1] \in {":", "-"} THEN Drop(rest, 1) ELSE rest)

\* \s*([\d\.]+) and the rest of the pattern on what follows the label.
NumeralAndTitle(after) ==
  IF LeadingCount(after, NumeralChars) = 0 THEN None
  ELSE [section_number |-> SubSeq(after, 1, LeadingCount(after, NumeralChars)),
        section_title |->
          TitleAfter(Strip(Drop(after, LeadingCount(after, NumeralChars))))]

\* re.match(section_pattern, stripped): no label is a prefix of another, so
\* at most one alternative applies.
MatchSection(stripped) ==
  IF \E label \in SectionLabels : StartsWith(stripped, label)
    THEN NumeralAndTitle(
           Strip(Drop(stripped,
                      Len(CHOOSE label \in SectionLabels :
                            StartsWith(stripped, label)))))
    ELSE None

\* extract_section_info
extract_section_info(text) == MatchSection(Strip(text))

\* Position of the first "\n" of page, 0 when it has none.
FirstNewline(page) ==
  IF \E k \in 1..Len(page) : page[k] = "\n"
    THEN CHOOSE k \in 1..Len(page) :
           page[k] = "\n" /\ \A j \in 1..(k - 1) : page[j] # "\n"
    ELSE 0

\* page.split("\n")
RECURSIVE SplitLines(_)
SplitLines(page) ==
  IF FirstNewline(page) = 0 THEN <<page>>
  ELSE <<SubSeq(page, 1, FirstNewline(page) - 1)>>
         \o SplitLines(Drop(page, FirstNewline(page)))

\* Line 35: the lines of the page that are not blank
Paragraphs(page) == SelectSeq(SplitLines(page), LAMBDA para : Strip(para) # <<>>)

\* Lines 52-58: the chunk built from the buffer
ChunkData(buffer, section, page) ==
  [text |-> Strip(buffer),
   section_number |-> section.number,
   section_title |-> section.title,
   page_number |-> page,
   context |-> <<"Page ", page, ", Section ", section.number, ": ", section.title>>]

\* The condition of line 48 with <= for <.
FitsInclusive(buffer, paragraph, cap_tokens) ==
  Len(buffer) + Len(paragraph) <= cap_tokens * 4

\* The condition of line 48 without the length of the paragraph.
FitsBufferOnly(buffer, paragraph, cap_tokens) ==
  Len(buffer) < cap_tokens * 4

\* Line 48: the paragraph goes into the running buffer
Fits(buffer, paragraph, cap_tokens) ==
  Len(buffer) + Len(paragraph) < cap_tokens * 4

(***************************************************************************)
(* The documents of the model.                                             *)
(***************************************************************************)
Digits == <<"1", "2", "3", "4", "5", "6", "7", "8", "9">>

\* A chunk as chunk_text builds it; chunk c lies in section c.
ChunkOf(c) ==
  [text |-> <<"t">>,
   section_number |-> <<Digits[c]>>,
   section_title |-> <<>>,
   page_number |-> c,
   context |-> <<>>]

Ob(text) == [obligation_text |-> text, deadline |-> None, section |-> <<"0">>]

Party(name, obligations) == [name |-> name, obligations |-> obligations]

Doc(parties) == [json |-> [parties |-> parties]]

Buyer == <<"B", "u", "y", "e", "r">>
buyer == <<"b", "u", "y", "e", "r">>
Agent == <<"A", "g", "e", "n", "t">>

\* The JSON documents the LLM may return for chunk c.
Answers(c) ==
  CASE c % 6 = 1 -> {Doc(<<Party(Buyer, <<Ob(<<"P", "a", "y">>)>>)>>)}
    [] c % 6 = 2 -> {Doc(<<Party(buyer, <<Ob(<<"p", "a", "y", " ">>)>>)>>)}
    [] c % 6 = 3 -> {Doc(<<Party(Agent, <<Ob(<<"S", "h", "i", "p">>)>>)>>)}
    [] c % 6 = 4 -> {Doc(<<Party(Buyer, <<Ob(<<"A", "u", "d">>)>>),
                           Party(Agent, <<Ob(<<"P", "A", "Y">>)>>)>>)}
    [] c % 6 = 5 -> {Doc(<<Party(Buyer, <<Ob(<<"F", "i", "l", "e">>)>>)>>)}
    [] c % 6 = 0 -> {Doc(<<Party(buyer, <<Ob(<<"P", "a", "y">>),
                                          Ob(<<"R", "e", "p">>)>>)>>),
                     Doc(<<Party(Agent, <<Ob(<<"T", "a", "x">>),
                                          [deadline |-> None]>>)>>),
                     Doc(<<[name |-> Agent]>>)}

\* Texts the LLM may return that are not JSON documents: the "null"
\* sentinel in several spellings, and text json.loads rejects.
RawTexts ==
  {<<"n", "u", "l", "l">>, <<" ", "N", "u", "l", "l", "\n">>, <<"{">>}

\* What one LLM call may end in: an exception, or a message content.
Outcomes(c) ==
  {[exc |-> TRUE]}
    \cup {[content |-> [raw |-> t]] : t \in RawTexts}
    \cup {[content |-> d] : d \in Answers(c)}

(***************************************************************************)
(* State of one call of extract_obligation_from_chunks.                    *)
(***************************************************************************)
VARIABLES
  chunks,     \* the argument: the list of chunks
  pc,         \* where the orchestrator coroutine stands
  i,          \* the loop variable of line 98 (0-based start of the batch)
  task,       \* task[c]: state and attempt number of process_chunk on chunks[c]
  ret,        \* ret[c]: the value the task of chunks[c] returned
  tracker,    \* the ObligationTracker of the run
  results,    \* the list results of line 93
  returned,   \* the value the run returned
  completed,  \* chunk numbers of the running batch, in the order their tasks returned
  calls,      \* calls[c]: LLM calls made for chunks[c]
  nulls,      \* nulls[c]: chunks[c] has been answered the "null" sentinel
  pauses      \* number of times the run came to asyncio.sleep(0.5) of line 115

xvars == <<chunks, pc, i, task, ret, tracker, results, returned, completed,
           calls, nulls, pauses>>

\* State of one call of chunk_text.  total_chars of line 31 only feeds a
\* log line and is left out.
VARIABLES
  pages,            \* the argument: the page texts
  max_tokens,       \* the argument max_tokens
  at,               \* where chunk_text stands: "idle", "pages" or "done"
  page_num,         \* the loop variable of line 33
  paragraphs,       \* what is left of the loop of line 38 for this page
  produced,         \* the list chunks of line 27
  current_chunk,    \* the running buffer
  current_section,
  current_page,
  parts,            \* the paragraphs the running buffer is made of
  produced_parts    \* produced_parts[k]: the paragraphs chunk k is made of

cvars == <<pages, max_tokens, at, page_num, paragraphs, produced,
           current_chunk, current_section, current_page, parts, produced_parts>>

\* State of the runs that use trackers: the ObligationTracker objects made
\* so far, and for each run its tracker and the calls it made on it.
VARIABLES
  objects,      \* the ObligationTracker objects, in the order they were made
  tracker_of,   \* tracker_of[r]: the object the variable tracker of run r
                \* refers to, 0 before line 94
  history       \* history[r]: the tracker calls of run r, each with its
                \* argument, returned value and the tracker before and after

tvars == <<objects, tracker_of, history>>

\* State of one call of process_chunk taken alone.
VARIABLES
  arg_chunk,    \* the argument chunk
  arg_tracker,  \* the argument tracker, as the call has left it so far
  attempt_no,   \* the loop variable attempt of line 38
  task_at,      \* where the call stands: "idle", "call" (line 44), "sleep"
                \* (line 88) or "returned"
  task_ret,     \* the value the call returned
  events        \* what the call did so far: "call", "return", "null" (the
                \* try block ended without return or exception), "raise",
                \* "sleep", "none" (line 89)

kvars == <<arg_chunk, arg_tracker, attempt_no, task_at, task_ret, events>>

\* State of one call of extract_section_info.
VARIABLES
  line_text,    \* the argument text
  info          \* what the call returned

svars == <<line_text, info>>

\* State of the reading of one document, and of what its caller does with
\* the pages (lines 68-72 of routes.py).
VARIABLES
  file,            \* the argument file_bytes, as what the libraries find in it
  content_type,    \* the argument content_type
  stage,           \* "idle", "ready", then "read", "chunking", "extracting",
                   \* or "raised" when extract_text_from_document raised
  document_pages   \* what extract_text_from_document returned

rvars == <<file, content_type, stage, document_pages>>

\* State of the API of routes.py: the settings, the stored obligations and
\* the requests being served.
VARIABLES
  settings,           \* core/config.py: are the Jira credentials set
  obligations_store,  \* _obligations_store of obligation_service.py
  uuids,              \* number of uuid.uuid4() values drawn so far
  created,            \* the issues the backends created so far, in order
  req                 \* the requests received so far, each with the place
                      \* its handler stands at, its locals and its response

avars == <<settings, obligations_store, uuids, created, req>>

ChunkIds == 1..Len(chunks)

\* chunks[i:i + BATCH_SIZE + 1]: a batch reaching one chunk too far.
BatchOfOneMore(start) ==
  {c \in ChunkIds : start < c /\ c <= start + BATCH_SIZE + 1}

\* Line 100: chunks[i:i + BATCH_SIZE] for i = start, as chunk numbers.
BatchOf(start) == {c \in ChunkIds : start < c /\ c <= start + BATCH_SIZE}

\* The batch a chunk is processed in, counted from 0.
BatchNo(c) == (c - 1) \div BATCH_SIZE

Returned(c) == task[c].st = "returned"

\* The orchestrator resumed as soon as one task of the batch is done.
BatchSettledFirst(start) == \E c \in BatchOf(start) : Returned(c)

\* await asyncio.gather(*tasks) resumes when every task of the batch is done.
BatchSettled(start) == \A c \in BatchOf(start) : Returned(c)

\* Lines 103-104: the tasks of the batch are created and each runs up to its
\* first LLM call.
Launch(start) ==
  /\ task' = [c \in ChunkIds |->
                IF c \in BatchOf(start) THEN [st |-> "awaiting", attempt |-> 0]
                ELSE task[c]]
  /\ calls' = [c \in ChunkIds |-> IF c \in BatchOf(start) THEN 1 ELSE calls[c]]
  /\ completed' = <<>>

\* The values of the batch in the order the tasks returned.
BatchResultsAsCompleted(start) ==
  [k \in 1..Len(completed) |-> ret[completed[k]]]

\* batch_results of line 104: gather returns the values in the order of the
\* tasks it was given.
BatchResults(start) ==
  [k \in 1..Cardinality(BatchOf(start)) |-> ret[start + k]]

\* Line 107
ValidResults(batch_results) == SelectSeq(batch_results, LAMBDA r : r # None)

\* The valid results of a batch put before those of the earlier batches.
PrependResults(all_results, valid_results) == valid_results \o all_results

\* Line 108: results.extend(valid_results)
ExtendResults(all_results, valid_results) == all_results \o valid_results

\* The run returning the list of the parties itself.
ReturnBare(m) ==
  IF m.raised
    THEN pc' = "raised" /\ returned' = None
    ELSE pc' = "done" /\ returned' = m.merged

\* Lines 133-136 with what the merge gave: the run returns, or the KeyError
\* of line 131 leaves it.
ReturnMerged(m) ==
  IF m.raised
    THEN pc' = "raised" /\ returned' = None
    ELSE pc' = "done" /\ returned' = <<[parties |-> m.merged]>>

\* Lines 117-136
Finish(all_results) ==
  ReturnMerged(MergeResults([raised |-> FALSE, merged |-> <<>>], all_results))

\* extract_obligation_from_chunks is called.
InitRun ==
  /\ chunks \in {[c \in 1..n |-> ChunkOf(c)] : n \in 0..MaxChunks}
  /\ pc = "start"
  /\ i = 0
  /\ task = [c \in ChunkIds |-> [st |-> "pending", attempt |-> 0]]
  /\ ret = [c \in ChunkIds |-> None]
  /\ tracker = NewTracker
  /\ results = <<>>
  /\ returned = None
  /\ completed = <<>>
  /\ calls = [c \in ChunkIds |-> 0]
  /\ nulls = [c \in ChunkIds |-> FALSE]
  /\ pauses = 0

\* Lines 92-104 up to the first await: with no chunk the loop body never runs
\* and the run merges and returns at once.
Start ==
  /\ pc = "start"
  /\ IF Len(chunks) = 0
       THEN /\ Finish(results)
            /\ UNCHANGED <<task, calls, completed>>
       ELSE /\ pc' = "gather"
            /\ Launch(0)
            /\ UNCHANGED returned
  /\ UNCHANGED <<chunks, pauses, i, ret, tracker, results, nulls>>
  /\ UNCHANGED <<cvars, tvars, kvars, svars, rvars, avars>>

\* Chunks with an attempt that did not end in a result.
Faulty == {c \in ChunkIds : task[c].attempt > 0 \/ task[c].st = "sleeping"}

MayFail(c) == c \in Faulty \/ Cardinality(Faulty) < MaxFaulty

\* process_chunk returns value from the task of chunks[c].
Settle(c, value) ==
  /\ task' = [task EXCEPT ![c].st = "returned"]
  /\ ret' = [ret EXCEPT ![c] = value]
  /\ completed' = Append(completed, c)

\* The next iteration of the attempt loop of line 38 begins (the next LLM
\* call is made), or the loop is over and line 89 returns None.
NextAttempt(c) ==
  IF task[c].attempt + 1 < MAX_RETRIES
    THEN /\ task' = [task EXCEPT ![c] = [st |-> "awaiting", attempt |-> @.attempt + 1]]
         /\ calls' = [calls EXCEPT ![c] = @ + 1]
         /\ UNCHANGED <<ret, completed>>
    ELSE /\ Settle(c, None)
         /\ UNCHANGED calls

\* The attempt a of chunks[c] returns a result (line 83).
ChunkReturns(c, a) ==
  /\ a.kind = "return"
  /\ Settle(c, a.result)
  /\ tracker' = a.tracker
  /\ UNCHANGED <<calls, nulls>>

\* The attempt a of chunks[c] was answered the "null" sentinel: the condition
\* of line 55 is false, the try block ends without a return and without an
\* exception, and the for loop of line 38 goes on.
ChunkNull(c, a) ==
  /\ a.kind = "null"
  /\ MayFail(c)
  /\ NextAttempt(c)
  /\ tracker' = a.tracker
  /\ nulls' = [nulls EXCEPT ![c] = TRUE]

\* The exception of the attempt a of chunks[c] leaving process_chunk: the
\* task ends with it.
ChunkExceptEscapes(c, a) ==
  /\ a.kind = "except"
  /\ MayFail(c)
  /\ task' = [task EXCEPT ![c].st = "returned"]
  /\ ret' = [ret EXCEPT ![c] = [exc |-> TRUE]]
  /\ completed' = Append(completed, c)
  /\ tracker' = a.tracker
  /\ UNCHANGED <<calls, nulls>>

\* The LLM call of the attempt a of chunks[c] raised, or the code handling
\* its answer did: the except clause of line 85 runs up to the await of
\* asyncio.sleep(1).
ChunkExcept(c, a) ==
  /\ a.kind = "except"
  /\ MayFail(c)
  /\ task' = [task EXCEPT ![c].st = "sleeping"]
  /\ tracker' = a.tracker
  /\ UNCHANGED <<ret, completed, calls, nulls>>

\* The LLM call of chunks[c] (line 44) ends, and process_chunk runs up to
\* its next await or its return.
Respond(c) ==
  /\ pc = "gather"
  /\ task[c].st = "awaiting"
  /\ \E o \in Outcomes(c) : \E a \in {Attempt(chunks[c], tracker, o)} :
       \/ ChunkReturns(c, a)
       \/ ChunkNull(c, a)
       \/ ChunkExcept(c, a)
  /\ UNCHANGED <<chunks, pauses, pc, i, results, returned>>
  /\ UNCHANGED <<cvars, tvars, kvars, svars, rvars, avars>>

\* asyncio.sleep(1) of line 88 is over.
ChunkWakes(c) ==
  /\ pc = "gather"
  /\ task[c].st = "sleeping"
  /\ NextAttempt(c)
  /\ UNCHANGED <<chunks, pauses, pc, i, tracker, results, returned, nulls>>
  /\ UNCHANGED <<cvars, tvars, kvars, svars, rvars, avars>>

\* The test of line 113 holding also when the batch ends the list.
MoreBatchesInclusive(start) == start + BATCH_SIZE <= Len(chunks)

\* Line 113: the batch begun at start is not the last.
MoreBatches(start) == start + BATCH_SIZE < Len(chunks)

\* gather resumes the orchestrator: lines 107-115, and with no batch left
\* lines 117-136.
GatherDone ==
  /\ pc = "gather"
  /\ BatchSettled(i)
  /\ results' = ExtendResults(results, ValidResults(BatchResults(i)))
  /\ IF MoreBatches(i)
       THEN pc' = "pause" /\ pauses' = pauses + 1 /\ UNCHANGED returned
       ELSE Finish(results') /\ UNCHANGED pauses
  /\ UNCHANGED <<chunks, i, task, ret, tracker, completed, calls, nulls>>
  /\ UNCHANGED <<cvars, tvars, kvars, svars, rvars, avars>>

\* asyncio.sleep(0.5) of line 115 is over: the next iteration of the loop of
\* line 98 launches the next batch.
PauseDone ==
  /\ pc = "pause"
  /\ i' = i + BATCH_SIZE
  /\ pc' = "gather"
  /\ Launch(i')
  /\ UNCHANGED <<chunks, pauses, ret, tracker, results, returned, nulls>>
  /\ UNCHANGED <<cvars, tvars, kvars, svars, rvars, avars>>

(***************************************************************************)
(* chunk_text as a state machine over the documents of the model.          *)
(***************************************************************************)
vars == <<xvars, cvars, tvars, kvars, svars, rvars, avars>>

\* The lines documents are written with.
Lines ==
  {<<>>, <<" ">>, <<"a">>, <<"a", "a", "a">>, <<"b", "b", "b", "b">>,
   <<" ", "c", " ">>, <<"A", "r", "t", ".", "1">>}

\* "\n".join(ls)
RECURSIVE JoinLines(_)
JoinLines(ls) ==
  IF ls = <<>> THEN <<>>
  ELSE IF Len(ls) = 1 THEN ls[1]
  ELSE ls[1] \o <<"\n">> \o JoinLines(Tail(ls))

\* The page line j of a document lies on, a new page beginning after line k
\* when breaks[k].
PageOfLine(breaks, j) == 1 + Cardinality({k \in 1..(j - 1) : breaks[k]})

\* The pages of the document made of the lines ls.
PagesOf(ls, breaks) ==
  [pg \in 1..(IF ls = <<>> THEN 0 ELSE PageOfLine(breaks, Len(ls))) |->
     JoinLines(SubSeq(ls,
       CHOOSE j \in 1..Len(ls) :
         PageOfLine(breaks, j) = pg /\ (j = 1 \/ PageOfLine(breaks, j - 1) < pg),
       CHOOSE j \in 1..Len(ls) :
         PageOfLine(breaks, j) = pg
           /\ (j = Len(ls) \/ PageOfLine(breaks, j + 1) > pg)))]

Documents ==
  UNION {{PagesOf(ls, breaks) : breaks \in [1..(Len(ls) - 1) -> BOOLEAN]} :
           ls \in UNION {[1..n -> Lines] : n \in 0..MaxLines}}

\* chunk_text is called: lines 27-30.
InitChunker ==
  /\ pages \in Documents
  /\ max_tokens \in 1..MaxTokens
  /\ at = "pages"
  /\ page_num = 0
  /\ paragraphs = <<>>
  /\ produced = <<>>
  /\ current_chunk = <<>>
  /\ current_section = [number |-> <<>>, title |-> <<>>]
  /\ current_page = 0
  /\ parts = <<>>
  /\ produced_parts = <<>>

\* chunk_text is not running.
ChunkerIdle ==
  /\ pages = <<>>
  /\ max_tokens = 0
  /\ at = "idle"
  /\ page_num = 0
  /\ paragraphs = <<>>
  /\ produced = <<>>
  /\ current_chunk = <<>>
  /\ current_section = [number |-> <<>>, title |-> <<>>]
  /\ current_page = 0
  /\ parts = <<>>
  /\ produced_parts = <<>>

\* Lines 33-35: the loop of line 33 takes the next page.
ChunkPage ==
  /\ at = "pages"
  /\ paragraphs = <<>>
  /\ page_num < Len(pages)
  /\ page_num' = page_num + 1
  /\ paragraphs' = Paragraphs(pages[page_num'])
  /\ UNCHANGED <<pages, max_tokens, at, produced, current_chunk,
                 current_section, current_page, parts, produced_parts>>
  /\ UNCHANGED <<xvars, tvars, kvars, svars, rvars, avars>>

\* Lines 40-45: the section in force once the paragraph has been looked at.
SectionAfter(section, section_info) ==
  IF section_info # None
    THEN [number |-> section_info.section_number,
          title |-> section_info.section_title]
    ELSE section

\* Line 49 with = for +=: the paragraph replaces what the buffer held.
BufferedAlone(buffer, paragraph) == paragraph \o <<"\n">>

\* Lines 49 and 61: the buffer with the paragraph and a newline after what
\* it held (nothing, at line 61).
Buffered(buffer, paragraph) == buffer \o paragraph \o <<"\n">>

\* Lines 38-62: the body of the loop of line 38 for the next paragraph.
ChunkParagraph ==
  /\ at = "pages"
  /\ paragraphs # <<>>
  /\ paragraphs' = Tail(paragraphs)
  /\ current_section' =
       SectionAfter(current_section, extract_section_info(Head(paragraphs)))
  /\ \/ /\ Fits(current_chunk, Head(paragraphs), max_tokens)
        /\ current_chunk' = Buffered(current_chunk, Head(paragraphs))
        /\ parts' = Append(parts, Head(paragraphs))
        /\ UNCHANGED <<produced, produced_parts, current_page>>
     \/ /\ ~Fits(current_chunk, Head(paragraphs), max_tokens)
        /\ IF Strip(current_chunk) # <<>>
             THEN /\ produced' = Append(produced,
                        ChunkData(current_chunk, current_section', current_page))
                  /\ produced_parts' = Append(produced_parts, parts)
             ELSE UNCHANGED <<produced, produced_parts>>
        /\ current_chunk' = Buffered(<<>>, Head(paragraphs))
        /\ parts' = <<Head(paragraphs)>>
        /\ current_page' = page_num
  /\ UNCHANGED <<pages, max_tokens, at, page_num>>
  /\ UNCHANGED <<xvars, tvars, kvars, svars, rvars, avars>>

\* Lines 64-78: the last chunk, and the return.
ChunkFinish ==
  /\ at = "pages"
  /\ paragraphs = <<>>
  /\ page_num = Len(pages)
  /\ at' = "done"
  /\ IF Strip(current_chunk) # <<>>
       THEN /\ produced' = Append(produced,
                  ChunkData(current_chunk, current_section, current_page))
            /\ produced_parts' = Append(produced_parts, parts)
       ELSE UNCHANGED <<produced, produced_parts>>
  /\ UNCHANGED <<pages, max_tokens, page_num, paragraphs, current_chunk,
                 current_section, current_page, parts>>
  /\ UNCHANGED <<xvars, tvars, kvars, svars, rvars, avars>>

(***************************************************************************)
(* Runs of extract_obligation_from_chunks as users of trackers: line 94    *)
(* and the calls process_chunk makes on the tracker of its run (lines 63   *)
(* and 73).  A call runs to its end before any other code of the event     *)
(* loop: the methods of ObligationTracker do not await.                    *)
(***************************************************************************)
Runs == {1, 2}

\* Obligation texts and party names the LLM answers with.
Texts ==
  {<<"P", "a", "y">>, <<" ", "P", "A", "Y", " ">>, <<"S", "h", "i", "p">>}

Names ==
  {<<"A", "c", "m", "e", " ", "C", "o", "r", "p">>,
   <<" ", "A", "C", "M", "E", " ", "C", "O", "R", "P">>,
   <<"A", "c", "m", "e">>}

\* No run has begun.
TrackersIdle ==
  /\ objects = <<>>
  /\ tracker_of = [r \in Runs |-> 0]
  /\ history = [r \in Runs |-> <<>>]

CallsMade == Len(history[1]) + Len(history[2])

\* A tracker shared by the runs of the module: every run gets the first
\* object.
ModuleTrackerRef(heap) == 1

\* Line 94: tracker refers to the object ObligationTracker() has just made.
NewTrackerRef(heap) == Len(heap)

\* Line 94 in run r.
Begin(r) ==
  /\ tracker_of[r] = 0
  /\ objects' = Append(objects, NewTracker)
  /\ tracker_of' = [tracker_of EXCEPT ![r] = NewTrackerRef(objects')]
  /\ UNCHANGED history
  /\ UNCHANGED <<xvars, cvars, kvars, svars, rvars, avars>>

\* Run r has called fn(arg) on its tracker, with the result res.
Called(r, fn, arg, res) ==
  /\ objects' = [objects EXCEPT ![tracker_of[r]] = res.tracker]
  /\ history' = [history EXCEPT ![r] =
                   Append(@, [fn |-> fn, arg |-> arg, out |-> res.ret,
                              before |-> objects[tracker_of[r]],
                              after |-> res.tracker])]
  /\ UNCHANGED tracker_of
  /\ UNCHANGED <<xvars, cvars, kvars, svars, rvars, avars>>

\* Line 73 in a task of run r.
CallIsDuplicate(r) ==
  /\ tracker_of[r] # 0
  /\ CallsMade < MaxCalls
  /\ \E text \in Texts :
       Called(r, "is_duplicate", text,
              is_duplicate(objects[tracker_of[r]], text))

\* Line 63 in a task of run r.
CallStandardize(r) ==
  /\ tracker_of[r] # 0
  /\ CallsMade < MaxCalls
  /\ \E name \in Names :
       Called(r, "standardize_party_name", name,
              standardize_party_name(objects[tracker_of[r]], name))

(***************************************************************************)
(* process_chunk taken alone: one call, its attempts and its backoffs.     *)
(***************************************************************************)
\* process_chunk is not running.
TaskIdle ==
  /\ arg_chunk = None
  /\ arg_tracker = NewTracker
  /\ attempt_no = 0
  /\ task_at = "idle"
  /\ task_ret = None
  /\ events = <<>>

\* process_chunk(chunk, tracker) is called and comes to its first LLM call:
\* lines 36-44.
InitTask ==
  /\ arg_chunk \in {ChunkOf(c) : c \in 1..MaxChunks}
  /\ arg_tracker = NewTracker
  /\ attempt_no = 0
  /\ task_at = "call"
  /\ task_ret = None
  /\ events = <<"call">>

\* The next iteration of the loop of line 38 begins and comes to its LLM
\* call, or the loop is over and line 89 returns None; so_far is what the
\* call did in this step before.
TaskNextAttempt(so_far) ==
  IF attempt_no + 1 < MAX_RETRIES
    THEN /\ attempt_no' = attempt_no + 1
         /\ task_at' = "call"
         /\ events' = events \o so_far \o <<"call">>
         /\ UNCHANGED task_ret
    ELSE /\ task_at' = "returned"
         /\ task_ret' = None
         /\ events' = events \o so_far \o <<"none">>
         /\ UNCHANGED attempt_no

\* Line 83
TaskReturns(a) ==
  /\ a.kind = "return"
  /\ task_at' = "returned"
  /\ task_ret' = a.result
  /\ events' = Append(events, "return")
  /\ UNCHANGED attempt_no

\* The condition of line 55 is false: the try block ends and the loop goes
\* on.
TaskNull(a) ==
  /\ a.kind = "null"
  /\ TaskNextAttempt(<<"null">>)

\* Line 88 left out after the last attempt: the loop is over and line 89
\* returns None at once.
TaskBackOffUnlessLast ==
  IF attempt_no + 1 < MAX_RETRIES
    THEN /\ task_at' = "sleep"
         /\ events' = events \o <<"raise", "sleep">>
         /\ UNCHANGED <<attempt_no, task_ret>>
    ELSE /\ task_at' = "returned"
         /\ task_ret' = None
         /\ events' = events \o <<"raise", "none">>
         /\ UNCHANGED attempt_no

\* Lines 85-88: the except clause runs up to await asyncio.sleep(1),
\* whatever the attempt.
TaskBackOff ==
  /\ task_at' = "sleep"
  /\ events' = events \o <<"raise", "sleep">>
  /\ UNCHANGED <<attempt_no, task_ret>>

TaskExcept(a) ==
  /\ a.kind = "except"
  /\ TaskBackOff

\* The LLM call of line 44 ends, and the call runs up to its next await or
\* its return.  The chunk ChunkOf(c) is on page c.
TaskResponds ==
  /\ task_at = "call"
  /\ \E o \in Outcomes(arg_chunk.page_number) :
       \E a \in {Attempt(arg_chunk, arg_tracker, o)} :
         /\ arg_tracker' = a.tracker
         /\ \/ TaskReturns(a)
            \/ TaskNull(a)
            \/ TaskExcept(a)
  /\ UNCHANGED arg_chunk
  /\ UNCHANGED <<xvars, cvars, tvars, svars, rvars, avars>>

\* asyncio.sleep(1) of line 88 is over.
TaskWakes ==
  /\ task_at = "sleep"
  /\ TaskNextAttempt(<<>>)
  /\ UNCHANGED <<arg_chunk, arg_tracker>>
  /\ UNCHANGED <<xvars, cvars, tvars, svars, rvars, avars>>

(***************************************************************************)
(* extract_section_info on the lines of the model.                         *)
(***************************************************************************)
\* The call has not returned yet.
Pending == [pending |-> TRUE]

\* The lines extract_section_info is given: a label or none, in several
\* casings, blanks or none, a numeral or none, a title or none.
HeaderLabels ==
  {<<>>,
   <<"S", "e", "c", "t", "i", "o", "n">>,
   <<"S", "E", "C", "T", "I", "O", "N">>,
   <<"s", "e", "c", "t", "i", "o", "n">>,
   <<"S", "e", "c", "T", "i", "o", "n">>,
   <<"A", "r", "t", ".">>,
   <<"A", "R", "T", ".">>,
   <<"a", "r", "t", ".">>,
   <<"A", "r", "t", "i", "c", "l", "e">>,
   <<"A", "R", "T", "I", "C", "L", "E">>,
   <<"a", "r", "t", "i", "c", "l", "e">>,
   <<"S", "e", "c">>}

HeaderNumerals == {<<>>, <<"2">>, <<"2", ".", "1">>}

HeaderTitles ==
  {<<>>, <<" ", "P", "a", "y", "m", "e", "n", "t">>, <<":", " ", "T", "e", "r", "m">>, <<"-", "x">>}

HeaderLines ==
  {label \o blank \o numeral \o title :
     label \in HeaderLabels, blank \in {<<>>, <<" ">>},
     numeral \in HeaderNumerals, title \in HeaderTitles}

\* extract_section_info is not running.
SectionIdle ==
  /\ line_text = <<>>
  /\ info = None

\* extract_section_info(text) is called.
InitSection ==
  /\ line_text \in HeaderLines
  /\ info = Pending

\* extract_section_info returns.
SectionReturns ==
  /\ info = Pending
  /\ info' = extract_section_info(line_text)
  /\ UNCHANGED line_text
  /\ UNCHANGED <<xvars, cvars, tvars, kvars, rvars, avars>>

(***************************************************************************)
(* document_reader.py, and the caller that chunks the pages read and       *)
(* extracts the obligations of the chunks (routes.py, lines 68-72).        *)
(***************************************************************************)
\* What a call gave its caller: the value it returned, or the exception
\* it raised.
Returns(value) == [raised |-> FALSE, value |-> value]

Raises == [raised |-> TRUE, value |-> None]

PDF == <<"a", "p", "p", "l", "i", "c", "a", "t", "i", "o", "n", "/", "p", "d", "f">>

DOCX == <<"a", "p", "p", "l", "i", "c", "a", "t", "i", "o", "n", "/", "d", "o", "c", "x">>

DOCX_LONG ==
  <<"a", "p", "p", "l", "i", "c", "a", "t", "i", "o", "n", "/", "v", "n", "d", ".", "o", "p", "e", "n", "x", "m", "l", "f", "o", "r", "m", "a", "t", "s", "-">>
    \o <<"o", "f", "f", "i", "c", "e", "d", "o", "c", "u", "m", "e", "n", "t", ".", "w", "o", "r", "d", "p", "r", "o", "c", "e", "s", "s", "i", "n", "g", "m", "l", ".", "d", "o", "c", "u", "m", "e", "n", "t">>

\* Line 49: the number of characters a page of a DOCX document may hold.
DOCX_PAGE_CHARS == 3000

\* fitz.open(stream=file_bytes, filetype="pdf") and page.get_text() for
\* every page (lines 18-20): the page texts, or an exception when the bytes
\* are not a PDF document or a damaged one.
FitzPages(file_bytes) ==
  IF file_bytes.format = "pdf" /\ ~file_bytes.damaged
    THEN Returns(file_bytes.texts)
    ELSE Raises

\* extract_text_from_pdf without its try: the exception leaves it.
PdfPagesOrRaise(file_bytes) == FitzPages(file_bytes)

\* extract_text_from_pdf: the except clause of line 22 returns [].
extract_text_from_pdf(file_bytes) ==
  IF FitzPages(file_bytes).raised THEN Returns(<<>>) ELSE FitzPages(file_bytes)

\* docx.Document(io.BytesIO(file_bytes)).paragraphs (lines 37, 44): the
\* paragraph texts, or an exception when the bytes are not a DOCX document
\* or a damaged one.
DocxParagraphs(file_bytes) ==
  IF file_bytes.format = "docx" /\ ~file_bytes.damaged
    THEN Returns(file_bytes.texts)
    ELSE Raises

\* Lines 45-55 for one paragraph: acc holds pages, current_page and
\* char_count.
TakeParagraph(acc, stripped) ==
  IF stripped = <<>> THEN acc
  ELSE IF acc.char_count + Len(stripped) > DOCX_PAGE_CHARS
    THEN [pages |-> Append(acc.pages, acc.current_page),
          current_page |-> stripped \o <<"\n">>,
          char_count |-> Len(stripped)]
    ELSE [pages |-> acc.pages,
          current_page |-> acc.current_page \o stripped \o <<"\n">>,
          char_count |-> acc.char_count + Len(stripped)]

\* The loop of lines 44-55.
RECURSIVE GroupParagraphs(_, _)
GroupParagraphs(paras, acc) ==
  IF paras = <<>> THEN acc
  ELSE GroupParagraphs(Tail(paras), TakeParagraph(acc, Strip(Head(paras))))

\* Lines 57-61
WithLastPage(acc) ==
  IF acc.current_page # <<>> THEN Append(acc.pages, acc.current_page)
  ELSE acc.pages

\* extract_text_from_docx: the except clause of line 62 returns [].
extract_text_from_docx(file_bytes) ==
  IF DocxParagraphs(file_bytes).raised THEN Returns(<<>>)
  ELSE Returns(WithLastPage(
         GroupParagraphs(DocxParagraphs(file_bytes).value,
                         [pages |-> <<>>, current_page |-> <<>>, char_count |-> 0])))

\* extract_text_from_document
extract_text_from_document(file_bytes, type) ==
  IF type = PDF THEN extract_text_from_pdf(file_bytes)
  ELSE IF type \in {DOCX_LONG, DOCX} THEN extract_text_from_docx(file_bytes)
  ELSE Returns(<<>>)

\* The texts of the files of the model, page by page or paragraph by
\* paragraph: no text, a blank one, one line, two lines with a blank one
\* between them.
FileTexts ==
  {<<>>, <<<<" ", "\n">>>>, <<<<"a", "a", "a">>>>,
   <<<<"a", "a", "a">>, <<" ", "\n">>, <<"a", "a", "a">>>>}

\* A page of six lines.
SixLines == <<"a", "a", "a", "\n", "a", "a", "a", "\n", "a", "a", "a", "\n", "a", "a", "a", "\n", "a", "a", "a", "\n", "a", "a", "a">>

\* The files of the model: PDF and DOCX documents, whole or damaged, and
\* bytes that are neither.
Files ==
  {[format |-> f, damaged |-> d, texts |-> t] :
     f \in {"pdf", "docx"}, d \in BOOLEAN, t \in FileTexts}
    \cup {[format |-> "pdf", damaged |-> d, texts |-> <<SixLines>>] :
            d \in BOOLEAN}
    \cup {[format |-> "other", damaged |-> FALSE, texts |-> <<>>]}

ContentTypes == {PDF, DOCX, DOCX_LONG, <<"t", "e", "x", "t", "/", "p", "l", "a", "i", "n">>}

\* No document is being read.
ReaderIdle ==
  /\ file = None
  /\ content_type = <<>>
  /\ stage = "idle"
  /\ document_pages = <<>>

\* extract_text_from_document(file_bytes, content_type) is called.
InitReader ==
  /\ file \in Files
  /\ content_type \in ContentTypes
  /\ stage = "ready"
  /\ document_pages = <<>>

\* What the caller gets from extract_text_from_document: pages, or the
\* exception.
Read(got) ==
  IF got.raised
    THEN stage' = "raised" /\ UNCHANGED document_pages
    ELSE stage' = "read" /\ document_pages' = got.value

\* Line 68 of routes.py
ReadDocument ==
  /\ stage = "ready"
  /\ Read(extract_text_from_document(file, content_type))
  /\ UNCHANGED <<file, content_type>>
  /\ UNCHANGED <<xvars, cvars, tvars, kvars, svars, avars>>

\* Line 69 of routes.py: chunk_text is called with the pages read.
CallChunkText ==
  /\ stage = "read"
  /\ stage' = "chunking"
  /\ pages' = document_pages
  /\ max_tokens' \in 1..MaxTokens
  /\ at' = "pages"
  /\ UNCHANGED <<page_num, paragraphs, produced, current_chunk,
                 current_section, current_page, parts, produced_parts>>
  /\ UNCHANGED <<file, content_type, document_pages>>
  /\ UNCHANGED <<xvars, tvars, kvars, svars, avars>>

\* Line 72 of routes.py: extract_obligation_from_chunks is called with the
\* chunks chunk_text returned.
CallExtract ==
  /\ stage = "chunking"
  /\ at = "done"
  /\ stage' = "extracting"
  /\ chunks' = produced
  /\ pc' = "start"
  /\ task' = [c \in 1..Len(produced) |-> [st |-> "pending", attempt |-> 0]]
  /\ ret' = [c \in 1..Len(produced) |-> None]
  /\ calls' = [c \in 1..Len(produced) |-> 0]
  /\ nulls' = [c \in 1..Len(produced) |-> FALSE]
  /\ UNCHANGED <<i, tracker, results, returned, completed, pauses>>
  /\ UNCHANGED <<file, content_type, document_pages>>
  /\ UNCHANGED <<cvars, tvars, kvars, svars, avars>>

(***************************************************************************)
(* The stored obligations: models/obligation.py and obligation_service.py. *)
(***************************************************************************)
\* A Python str, where the value may also be None.
Text(s) == [str |-> s]

\* str(uuid.uuid4()): the n-th value drawn differs from every other one.
Uuid(n) == [uuid |-> n]

\* dict.get(key, default)
Get(dict, key, default) == IF HasKey(dict, key) THEN dict[key] ELSE default

\* Obligation(...) of lines 71-78 of obligation_service.py: the id is a new
\* uuid, jira_issue_id is None.
Obligation(id, obligation_data, party_name) ==
  [id |-> id,
   obligation_text |-> Get(obligation_data, "obligation_text", Text("")),
   party_name |-> party_name,
   jira_issue_id |-> None]

\* The pairs <<party name, obligation dict>> of the results, in the order
\* the loops of lines 62-70 (and of lines 90-98 of
\* obligation_issue_service.py) visit them.
RECURSIVE OfParties(_)
OfParties(parties) ==
  IF parties = <<>> THEN <<>>
  ELSE (IF HasKey(Head(parties), "obligations")
          THEN [k \in 1..Len(Head(parties).obligations) |->
                  <<Head(parties).name, Head(parties).obligations[k]>>]
          ELSE <<>>)
         \o OfParties(Tail(parties))

RECURSIVE OfResults(_)
OfResults(obligations_data) ==
  IF obligations_data = <<>> THEN <<>>
  ELSE (IF HasKey(Head(obligations_data), "parties")
          THEN OfParties(Head(obligations_data).parties) ELSE <<>>)
         \o OfResults(Tail(obligations_data))

\* store_obligations: the Obligation objects it makes, stored_obligations;
\* each is appended to _obligations_store as well (line 79).
store_obligations(obligations_data, drawn) ==
  [k \in 1..Len(OfResults(obligations_data)) |->
     Obligation(Uuid(drawn + k), OfResults(obligations_data)[k][2],
                OfResults(obligations_data)[k][1])]

\* get_obligation_by_id
get_obligation_by_id(store, obligation_id) ==
  IF \E k \in 1..Len(store) : store[k].id = obligation_id
    THEN store[CHOOSE k \in 1..Len(store) :
                 /\ store[k].id = obligation_id
                 /\ \A j \in 1..(k - 1) : store[j].id # obligation_id]
    ELSE None

\* Obligation.update(**kwargs), lines 21-25 of models/obligation.py: every
\* key that names an attribute is assigned, whatever the value.
ObligationUpdate(obligation, kwargs) ==
  [key \in DOMAIN obligation |->
     IF key \in DOMAIN kwargs THEN kwargs[key] ELSE obligation[key]]

\* The store with the first obligation of the id replaced by what change
\* makes of it: the objects of the store are changed in place.
InPlace(store, obligation_id, change(_)) ==
  [k \in 1..Len(store) |->
     IF store[k].id = obligation_id
          /\ \A j \in 1..(k - 1) : store[j].id # obligation_id
       THEN change(store[k]) ELSE store[k]]

\* update_obligation: update_dict holds the fields the request set
\* (model_dump(exclude_unset=True), line 169).
update_obligation(store, obligation_id, update_dict) ==
  LET Change(ob) == ObligationUpdate(ob, update_dict)
  IN  InPlace(store, obligation_id, Change)

\* set_jira_issue_id
set_jira_issue_id(store, obligation_id, jira_issue_id) ==
  LET Change(ob) == [ob EXCEPT !.jira_issue_id = jira_issue_id]
  IN  InPlace(store, obligation_id, Change)

\* delete_obligation: the first obligation of the id is popped.
delete_obligation(store, obligation_id) ==
  IF get_obligation_by_id(store, obligation_id) = None THEN store
  ELSE LET at_k == CHOOSE k \in 1..Len(store) :
                     /\ store[k].id = obligation_id
                     /\ \A j \in 1..(k - 1) : store[j].id # obligation_id
       IN  SubSeq(store, 1, at_k - 1) \o SubSeq(store, at_k + 1, Len(store))


(***************************************************************************)
(* The backends: project_management/factory.py, mock_jira.py, jira.py, and *)
(* the services over them, obligation_issue_service.py, issue_service.py.  *)
(***************************************************************************)
\* settings.DEFAULT_PROJECT_MANAGEMENT_TOOL, by default
DEFAULT_PROJECT_MANAGEMENT_TOOL == "jira"

\* The keys of ProjectManagementFactory._registry
Registry == {"jira"}

\* ProjectManagementFactory.get_tool: the backend it makes, "mock" for a
\* new MockJiraProjectManagement, whose _issues is empty, "jira" for a
\* JiraProjectManagement, or the ValueError of line 46.  "" stands for a
\* tool name not given.
get_tool(tool_name) ==
  LET name == IF tool_name = "" THEN DEFAULT_PROJECT_MANAGEMENT_TOOL ELSE tool_name
  IN  IF name \notin Registry THEN Raises
      ELSE IF name = "jira" /\ ~settings.credentials THEN Returns("mock")
      ELSE Returns("jira")

\* The error payload of the services and of JiraProjectManagement.
Error == [error |-> Text("error")]

\* MockJiraProjectManagement.create_issue: the issue made with the n-th
\* uuid; it is kept in the _issues of the instance that made it only.
MockIssue(n) ==
  [id |-> Uuid(n), key |-> [project |-> "MOCK", number |-> n], status |-> "To Do"]

\* What Jira answers to the POST of line 147 of jira.py when it creates the
\* n-th issue of the project.
JiraIssue(n) ==
  [id |-> [jira |-> n], key |-> [project |-> "KAN", number |-> n]]

\* The issues a backend created so far.
CreatedBy(log, backend) == {n \in 1..Len(log) : log[n].backend = backend}

\* What JiraProjectManagement.create_issue may return: the issue created,
\* or the error payload of _make_request.
JiraCreateOutcomes(log) == {JiraIssue(Cardinality(CreatedBy(log, "jira")) + 1), Error}

\* The state a handler works on: the store, the uuids drawn, the issues
\* created, and the request rq it serves.
\* A backend has created issue for the obligation the request names as who.
WithCreated(st, backend, issue, who) ==
  [st EXCEPT !.created = Append(@, [backend |-> backend, issue |-> issue,
                                    obligation_id |-> who, request |-> st.rq.number])]

\* create_obligation_issue on the mock backend: no await of it suspends,
\* the issue is made at once.
MockCreated(st, who) ==
  [WithCreated(st, "mock", MockIssue(st.uuids + 1), who) EXCEPT !.uuids = @ + 1]

\* The handler ends with a response.
Responds(st, status, body) ==
  [st EXCEPT !.rq.at = "done", !.rq.response = [status |-> status, body |-> body]]

\* The handler is suspended in the request to Jira of create_issue.
Awaits(st) == [st EXCEPT !.rq.at = "await"]

\* Line 31 of obligation_issue_service.py takes len(obligation_text): with
\* a text of None it raises TypeError, and create_obligation_issue returns
\* an error payload without creating an issue.
HasText(obligation) == obligation.obligation_text # None

\* "key" in response and "error" not in response
HasKeyNoError(response) == HasKey(response, "key") /\ ~HasKey(response, "error")


(***************************************************************************)
(* The handlers of routes.py that create issues.  Each is given as what    *)
(* it does from where it stands up to its response or to its next          *)
(* suspension: the requests of aiohttp to Jira suspend the handler, while  *)
(* no await of the mock backend does.                                      *)
(***************************************************************************)
\* Lines 403-417: create_issue_for_obligation after the response of
\* create_obligation_issue.  The content of the response of line 406 holds
\* updated_obligation.model_dump(), whose created_at and updated_at are
\* datetime objects: JSONResponse raises TypeError on them, which line 420
\* turns into status 500, after the issue id has been set.
IssueForObligationAfter(st, response) ==
  IF HasKeyNoError(response)
    THEN IF get_obligation_by_id(st.store, st.rq.obligation_id) # None
           THEN Responds([st EXCEPT !.store =
                            set_jira_issue_id(@, st.rq.obligation_id, response.key)],
                         500, [detail |-> "error"])
           ELSE Responds(st, 200, [success |-> TRUE, issue_id |-> response.key,
                                   obligation |-> None])
    ELSE Responds(st, 200,
                  [success |-> FALSE, error |-> Get(response, "error", Text("Unknown error"))])

\* Lines 379-401 of create_issue_for_obligation.
create_issue_for_obligation(st) ==
  LET obligation == get_obligation_by_id(st.store, st.rq.obligation_id)
  IN  IF obligation = None
        THEN Responds(st, 404, [detail |-> "not found"])
      ELSE IF obligation.jira_issue_id # None
        THEN Responds(st, 200, [message |-> "Issue already exists",
                                issue_id |-> obligation.jira_issue_id])
      ELSE IF get_tool(st.rq.project_tool).raised \/ ~HasText(obligation)
        THEN IssueForObligationAfter(st, Error)
      ELSE IF get_tool(st.rq.project_tool).value = "mock"
        THEN IssueForObligationAfter(MockCreated(st, st.rq.obligation_id),
                                     MockIssue(st.uuids + 1))
      ELSE Awaits(st)

\* The loop of line 443 goes on to the next id with one more result.
NextId(st, result) ==
  [st EXCEPT !.rq.results = Append(@, result), !.rq.k = @ + 1]

\* Lines 475-492: create_issues_for_obligations after the response of
\* create_obligation_issue for obligation_ids[k].
IssuesForObligationsAfter(st, response) ==
  IF HasKeyNoError(response)
    THEN NextId([st EXCEPT !.store =
                   set_jira_issue_id(@, st.rq.obligation_ids[st.rq.k], response.key)],
                [obligation_id |-> st.rq.obligation_ids[st.rq.k], success |-> TRUE,
                 message |-> "Successfully created issue", issue_id |-> response.key])
    ELSE NextId(st, [obligation_id |-> st.rq.obligation_ids[st.rq.k], success |-> FALSE,
                     message |-> "Failed to create issue"])

\* success_count of a list of results
SuccessCount(issue_results) == Cardinality({k \in 1..Len(issue_results) : issue_results[k].success})

\* create_issues_for_obligations from iteration k of the loop of line 443.
RECURSIVE create_issues_for_obligations(_)
create_issues_for_obligations(st) ==
  IF st.rq.k > Len(st.rq.obligation_ids)
    THEN Responds(st, 200,
                  [success_count |-> SuccessCount(st.rq.results),
                   failed_count |-> Len(st.rq.results) - SuccessCount(st.rq.results),
                   results |-> st.rq.results])
  ELSE LET obligation_id == st.rq.obligation_ids[st.rq.k]
           obligation == get_obligation_by_id(st.store, obligation_id)
       IN  IF obligation = None
             THEN create_issues_for_obligations(
                    NextId(st, [obligation_id |-> obligation_id, success |-> FALSE,
                                message |-> "not found"]))
           ELSE IF obligation.jira_issue_id # None
             THEN create_issues_for_obligations(
                    NextId(st, [obligation_id |-> obligation_id, success |-> TRUE,
                                message |-> "Issue already exists",
                                issue_id |-> obligation.jira_issue_id]))
           ELSE IF get_tool(st.rq.project_tool).raised \/ ~HasText(obligation)
             THEN create_issues_for_obligations(IssuesForObligationsAfter(st, Error))
           ELSE IF get_tool(st.rq.project_tool).value = "mock"
             THEN create_issues_for_obligations(
                    IssuesForObligationsAfter(MockCreated(st, obligation_id),
                                              MockIssue(st.uuids + 1)))
           ELSE Awaits(st)

\* Lines 213-226 of upload_and_create_issues: the stored obligation whose id
\* is the "id" of the obligation dict of a result gets the key of the issue.
RECURSIVE SetIssueIds(_, _)
SetIssueIds(store, issue_results) ==
  IF issue_results = <<>> THEN store
  ELSE SetIssueIds(
         IF /\ ~HasKey(Head(issue_results).issue_response, "error")
            /\ HasKey(Head(issue_results).issue_response, "key")
            /\ HasKey(Head(issue_results).obligation, "id")
           THEN set_jira_issue_id(store, Head(issue_results).obligation.id,
                                  Head(issue_results).issue_response.key)
           ELSE store,
         Tail(issue_results))

\* issues_created of line 233
IssuesCreated(issue_results) ==
  Cardinality({k \in 1..Len(issue_results) : ~HasKey(issue_results[k].issue_response, "error")})

\* Lines 99-104 of obligation_issue_service.py: the response for item k is
\* appended to the results.
AllObligationsAfter(st, response) ==
  [st EXCEPT !.rq.results =
               Append(@, [party |-> OfResults(st.rq.all_obligations)[st.rq.k][1],
                          obligation |-> OfResults(st.rq.all_obligations)[st.rq.k][2],
                          issue_response |-> response]),
             !.rq.k = @ + 1]

\* create_issues_for_all_obligations from item k on, and lines 209-237 of
\* upload_and_create_issues after it.
RECURSIVE create_issues_for_all_obligations(_)
create_issues_for_all_obligations(st) ==
  IF st.rq.k > Len(OfResults(st.rq.all_obligations))
    THEN Responds([st EXCEPT !.store = SetIssueIds(@, st.rq.results)], 200,
                  [total_obligations |-> Len(st.rq.all_obligations),
                   issues_created |-> IssuesCreated(st.rq.results),
                   issues_failed |-> Len(st.rq.results) - IssuesCreated(st.rq.results),
                   results |-> st.rq.results])
  ELSE IF get_tool(st.rq.project_tool).raised
    THEN create_issues_for_all_obligations(AllObligationsAfter(st, Error))
  ELSE IF get_tool(st.rq.project_tool).value = "mock"
    THEN create_issues_for_all_obligations(
           AllObligationsAfter(MockCreated(st, st.rq.stored_obligations[st.rq.k].id),
                               MockIssue(st.uuids + 1)))
  ELSE Awaits(st)

\* Lines 203-207 of upload_and_create_issues, all_obligations being what
\* extract_obligation_from_chunks returned.
upload_and_create_issues(st) ==
  create_issues_for_all_obligations(
    [st EXCEPT !.store = @ \o store_obligations(st.rq.all_obligations, st.uuids),
               !.uuids = @ + Len(store_obligations(st.rq.all_obligations, st.uuids)),
               !.rq.stored_obligations = store_obligations(st.rq.all_obligations, st.uuids)])

\* The handler resumes with the response of Jira to create_issue.
Resumed(st, response) ==
  CASE st.rq.op = "create_issue_for_obligation" ->
         IssueForObligationAfter(st, response)
    [] st.rq.op = "create_issues_for_obligations" ->
         create_issues_for_obligations(IssuesForObligationsAfter(st, response))
    [] st.rq.op = "upload_and_create_issues" ->
         create_issues_for_all_obligations(AllObligationsAfter(st, response))

\* The stored obligation the handler is creating an issue for.
Awaited(rq) ==
  CASE rq.op = "create_issue_for_obligation" -> rq.obligation_id
    [] rq.op = "create_issues_for_obligations" -> rq.obligation_ids[rq.k]
    [] rq.op = "upload_and_create_issues" -> rq.stored_obligations[rq.k].id


(***************************************************************************)
(* The other handlers of routes.py.                                        *)
(***************************************************************************)
\* seq[start:end] of Python, start and end counted from 0.
Slice(seq, start, end) ==
  [k \in 1..(IF end < Len(seq) THEN end - start ELSE Len(seq) - start) |-> seq[start + k]]

\* Lines 82-110 of upload_document, all_obligations being what
\* extract_obligation_from_chunks returned.
upload_document(st) ==
  LET all_obligations == st.rq.all_obligations
      start_idx == (st.rq.page - 1) * st.rq.page_size
      end_idx == start_idx + st.rq.page_size
      total_items == Len(all_obligations)
      total_pages == (total_items + st.rq.page_size - 1) \div st.rq.page_size
  IN  Responds([st EXCEPT !.store = @ \o store_obligations(all_obligations, st.uuids),
                          !.uuids = @ + Len(store_obligations(all_obligations, st.uuids)),
                          !.rq.stored_obligations =
                             store_obligations(all_obligations, st.uuids)],
               200,
               [total_obligations |-> total_items,
                current_page |-> st.rq.page,
                total_pages |-> total_pages,
                page_size |-> st.rq.page_size,
                obligations |-> Slice(all_obligations, start_idx, end_idx),
                has_next |-> st.rq.page < total_pages,
                has_previous |-> st.rq.page > 1])

\* Lines 311-343 of update_obligation_endpoint: update_data holds the fields
\* the request set, and a field it did not set reads None.
update_obligation_endpoint(st) ==
  LET current_obligation == get_obligation_by_id(st.store, st.rq.obligation_id)
      obligation_text == Get(st.rq.update_data, "obligation_text", None)
  IN  IF current_obligation = None
        THEN Responds(st, 404, [detail |-> "not found"])
      ELSE IF /\ current_obligation.jira_issue_id # None
              /\ obligation_text # None
              /\ obligation_text # current_obligation.obligation_text
        THEN Responds(st, 400, [detail |-> "Cannot modify obligation text"])
      ELSE Responds([st EXCEPT !.store =
                       update_obligation(@, st.rq.obligation_id, st.rq.update_data)],
                    200,
                    ObligationUpdate(current_obligation, st.rq.update_data))

\* Lines 356-364 of delete_obligation_endpoint
delete_obligation_endpoint(st) ==
  IF get_obligation_by_id(st.store, st.rq.obligation_id) = None
    THEN Responds(st, 404, [detail |-> "not found"])
    ELSE Responds([st EXCEPT !.store = delete_obligation(@, st.rq.obligation_id)],
                  200, [success |-> TRUE])

\* What a service of issue_service.py may return for the issue: on the mock
\* backend what a new MockJiraProjectManagement, with no issue in it, gives;
\* on Jira what Jira answers, the payload of a success or an error.
\* get_issue_details
get_issue_details(issue_id, project_tool) ==
  IF get_tool(project_tool).raised THEN {Error}
  ELSE IF get_tool(project_tool).value = "mock" THEN {None}
  ELSE {[id |-> issue_id], Error}

\* update_issue_status: the mock's update_issue takes no status and raises
\* TypeError, which line 65 turns into an error payload.
update_issue_status(issue_id, status, project_tool) ==
  IF get_tool(project_tool).raised THEN {Error}
  ELSE IF get_tool(project_tool).value = "mock" THEN {Error}
  ELSE {[success |-> TRUE], Error}

\* update_issue_details
update_issue_details(issue_id, update_data, project_tool) ==
  IF get_tool(project_tool).raised THEN {Error}
  ELSE IF get_tool(project_tool).value = "mock" THEN {None}
  ELSE {[success |-> TRUE], Error}

\* delete_issue
delete_issue(issue_id, project_tool) ==
  IF get_tool(project_tool).raised
    THEN {[success |-> FALSE, error |-> Text("error")]}
  ELSE IF get_tool(project_tool).value = "mock"
    THEN {[success |-> FALSE, message |-> "Failed to delete issue"]}
  ELSE {[success |-> TRUE, message |-> "successfully deleted"],
        [success |-> FALSE, message |-> "Failed to delete issue"]}

\* raise HTTPException(status_code=status, ...)
HTTPException(status) == [raised |-> TRUE, status |-> status, body |-> [detail |-> "error"]]

\* return JSONResponse(body)
JSONResponse(body) == [raised |-> FALSE, status |-> 200, body |-> body]

\* "error" in result: a TypeError when the result is None.
ErrorIn(result) == IF result = None THEN Raises ELSE Returns(HasKey(result, "error"))

\* The try of the issue handlers, whose one clause is except Exception:
\* whatever the body raises, an HTTPException too, is raised again as an
\* HTTPException of status 500.
ExceptException(outcome) ==
  IF outcome.raised THEN HTTPException(500) ELSE outcome

\* Lines 534-542 of get_issue for what get_issue_details returned.
get_issue(issue) ==
  ExceptException(
    IF ErrorIn(issue).raised THEN Raises
    ELSE IF ErrorIn(issue).value THEN HTTPException(404)
    ELSE JSONResponse(issue))

\* Lines 559-570 of update_status for what update_issue_status returned.
update_status(result) ==
  ExceptException(
    IF ErrorIn(result).raised THEN Raises
    ELSE IF ErrorIn(result).value THEN HTTPException(400)
    ELSE JSONResponse([issue |-> result]))

\* Line 589: the fields of the request that are not None.
NotNone(dict) == [key \in {f \in DOMAIN dict : dict[f] # None} |-> dict[key]]

\* Lines 587-620 of update_issue: result is what update_issue_details
\* returned for the update data.
update_issue(issue_update, result) ==
  ExceptException(
    IF DOMAIN NotNone(issue_update) = {} THEN HTTPException(400)
    ELSE IF ErrorIn(result).raised THEN Raises
    ELSE IF ErrorIn(result).value THEN HTTPException(400)
    ELSE JSONResponse([issue |-> result]))

\* Lines 635-646 of remove_issue for what delete_issue returned.
remove_issue(result) ==
  ExceptException(
    IF ~Get(result, "success", FALSE) THEN HTTPException(400)
    ELSE JSONResponse([success |-> TRUE]))


(***************************************************************************)
(* The requests and the steps of their handlers.                           *)
(***************************************************************************)
\* A request to the endpoint op, with the values its parameters and the
\* locals of its handler have when nothing is said of them.
Request(op) ==
  [op |-> op, number |-> 0, at |-> "start", response |-> None, result |-> None,
   project_tool |-> "", obligation_id |-> None, obligation_ids |-> <<>>,
   k |-> 1, results |-> <<>>, stored_obligations |-> <<>>,
   all_obligations |-> <<>>, page |-> 1, page_size |-> 1,
   update_data |-> None, issue_id |-> None, issue_update |-> None]

\* What extract_obligation_from_chunks may have returned for the document
\* of an upload: a list of one result (line 136 of obligation_extractor.py)
\* with no party, with two obligations of a party, or with an obligation
\* the LLM gave an "id" of its own.
ExtractionResults ==
  {<<[parties |-> <<>>]>>,
   <<[parties |-> <<[name |-> Text("Buyer"),
                     obligations |-> <<[obligation_text |-> Text("Pay")],
                                       [obligation_text |-> Text("Ship")]>>]>>]>>,
   <<[parties |-> <<[name |-> Text("Agent"),
                     obligations |-> <<[obligation_text |-> Text("File"),
                                        id |-> Text("1")]>>]>>]>>}

\* The ids a client may name: those of the stored obligations, and one of
\* no obligation.
ObligationIds ==
  {obligations_store[k].id : k \in 1..Len(obligations_store)} \cup {Uuid(0)}

\* The ids of the issues created so far, and one of no issue.
IssueIds == {created[n].issue.id : n \in 1..Len(created)} \cup {Uuid(0)}

\* The bodies of the requests to update an obligation: the fields set.
ObligationUpdates ==
  {[obligation_text |-> Text("Pay")], [obligation_text |-> Text("Pay more")],
   [obligation_text |-> None], [party_name |-> Text("Agent")]}

\* The bodies of the requests to update an issue.
IssueUpdates ==
  {[title |-> None, priority |-> None], [title |-> None, priority |-> Text("high")]}

\* The tool names a client may give; "" for none.
ToolNames == {"", "trello"}

\* The state the handler of request rq works on.
Working(rq) ==
  [store |-> obligations_store, uuids |-> uuids, created |-> created, rq |-> rq]

\* The handler has run up to its response or its suspension: what it leaves.
Leaves(st) ==
  /\ obligations_store' = st.store
  /\ uuids' = st.uuids
  /\ created' = st.created
  /\ req' = IF st.rq.number > Len(req) THEN Append(req, st.rq)
            ELSE [req EXCEPT ![st.rq.number] = st.rq]
  /\ UNCHANGED settings
  /\ UNCHANGED <<xvars, cvars, tvars, kvars, svars, rvars>>

\* One more request can be received.
CanReceive == Len(req) < MaxRequests

\* Request rq is received and its handler run runs up to its response or
\* its suspension.
Serves(rq, run(_)) == Leaves(run(Working([rq EXCEPT !.number = Len(req) + 1])))

\* The handler answers what the outcome of its body says.
Replies(st, result, outcome) ==
  Responds([st EXCEPT !.rq.result = result], outcome.status, outcome.body)

\* No request has been received.
ApiIdle ==
  /\ settings = [credentials |-> FALSE]
  /\ obligations_store = <<>>
  /\ uuids = 0
  /\ created = <<>>
  /\ req = <<>>

\* The application starts, with the Jira credentials set or not, and no
\* obligations file to load.
InitApp ==
  /\ settings \in {[credentials |-> b] : b \in BOOLEAN}
  /\ obligations_store = <<>>
  /\ uuids = 0
  /\ created = <<>>
  /\ req = <<>>

UploadDocument ==
  /\ CanReceive
  /\ \E data \in ExtractionResults, page \in 1..MaxPage, page_size \in 1..MaxPageSize :
       Serves([Request("upload_document") EXCEPT
                 !.all_obligations = data, !.page = page, !.page_size = page_size],
              upload_document)

UploadAndCreateIssues ==
  /\ CanReceive
  /\ \E data \in ExtractionResults :
       Serves([Request("upload_and_create_issues") EXCEPT !.all_obligations = data],
              upload_and_create_issues)

CreateIssueForObligation ==
  /\ CanReceive
  /\ \E id \in ObligationIds :
       Serves([Request("create_issue_for_obligation") EXCEPT
                 !.obligation_id = id, !.project_tool = "jira"],
              create_issue_for_obligation)

CreateIssuesForObligations ==
  /\ CanReceive
  /\ \E id1, id2 \in ObligationIds :
       Serves([Request("create_issues_for_obligations") EXCEPT
                 !.obligation_ids = <<id1, id2>>, !.project_tool = "jira"],
              create_issues_for_obligations)

\* Jira answers the request of a suspended handler, which resumes.
JiraResponds ==
  \E r \in 1..Len(req) : \E response \in JiraCreateOutcomes(created) :
    /\ req[r].at = "await"
    /\ Leaves(Resumed(IF HasKey(response, "key")
                        THEN WithCreated(Working(req[r]), "jira", response,
                                         Awaited(req[r]))
                        ELSE Working(req[r]),
                      response))

UpdateObligation ==
  /\ CanReceive
  /\ \E id \in ObligationIds, update_data \in ObligationUpdates :
       Serves([Request("update_obligation_endpoint") EXCEPT
                 !.obligation_id = id, !.update_data = update_data],
              update_obligation_endpoint)

DeleteObligation ==
  /\ CanReceive
  /\ \E id \in ObligationIds :
       Serves([Request("delete_obligation_endpoint") EXCEPT !.obligation_id = id],
              delete_obligation_endpoint)

GetIssue ==
  /\ CanReceive
  /\ \E id \in IssueIds, tool \in ToolNames : \E issue \in get_issue_details(id, tool) :
       LET Run(st) == Replies(st, issue, get_issue(issue))
       IN  Serves([Request("get_issue") EXCEPT !.issue_id = id, !.project_tool = tool], Run)

UpdateStatus ==
  /\ CanReceive
  /\ \E id \in IssueIds, tool \in ToolNames :
       \E result \in update_issue_status(id, "Done", tool) :
         LET Run(st) == Replies(st, result, update_status(result))
         IN  Serves([Request("update_status") EXCEPT !.issue_id = id, !.project_tool = tool],
                    Run)

UpdateIssue ==
  /\ CanReceive
  /\ \E id \in IssueIds, tool \in ToolNames, issue_update \in IssueUpdates :
       \E result \in IF DOMAIN NotNone(issue_update) = {} THEN {None}
                     ELSE update_issue_details(id, NotNone(issue_update), tool) :
         LET Run(st) == Replies(st, result, update_issue(issue_update, result))
         IN  Serves([Request("update_issue") EXCEPT
                       !.issue_id = id, !.project_tool = tool, !.issue_update = issue_update],
                    Run)

RemoveIssue ==
  /\ CanReceive
  /\ \E id \in IssueIds, tool \in ToolNames : \E result \in delete_issue(id, tool) :
       LET Run(st) == Replies(st, result, remove_issue(result))
       IN  Serves([Request("remove_issue") EXCEPT !.issue_id = id, !.project_tool = tool],
                  Run)

(***************************************************************************)
(* Specifications.                                                         *)
(***************************************************************************)
\* extract_obligation_from_chunks is not running.
RunIdle ==
  /\ chunks = <<>>
  /\ pc = "idle"
  /\ i = 0
  /\ task = <<>>
  /\ ret = <<>>
  /\ tracker = NewTracker
  /\ results = <<>>
  /\ returned = None
  /\ completed = <<>>
  /\ calls = <<>>
  /\ nulls = <<>>
  /\ pauses = 0

\* Nothing else is running.
RestIdle == TaskIdle /\ SectionIdle /\ ReaderIdle /\ ApiIdle

Init == InitRun /\ ChunkerIdle /\ TrackersIdle /\ RestIdle

Next ==
  \/ Start
  \/ \E c \in ChunkIds : Respond(c)
  \/ \E c \in ChunkIds : ChunkWakes(c)
  \/ GatherDone
  \/ PauseDone

\* One call of extract_obligation_from_chunks.
Spec == Init /\ [][Next]_vars

NextChunker ==
  \/ ChunkPage
  \/ ChunkParagraph
  \/ ChunkFinish

InitChunkText == InitChunker /\ RunIdle /\ TrackersIdle /\ RestIdle

\* One call of chunk_text.
SpecChunker == InitChunkText /\ [][NextChunker]_vars

InitTrackers == TrackersIdle /\ RunIdle /\ ChunkerIdle /\ RestIdle

NextTrackers ==
  \/ \E r \in Runs : Begin(r)
  \/ \E r \in Runs : CallIsDuplicate(r)
  \/ \E r \in Runs : CallStandardize(r)

\* Two runs and the calls they make on their trackers, in any order.
SpecTrackers == InitTrackers /\ [][NextTrackers]_vars

InitEither == Init \/ InitChunkText

NextEither == Next \/ NextChunker

\* One call of extract_obligation_from_chunks or one call of chunk_text.
SpecEither == InitEither /\ [][NextEither]_vars

InitProcessChunk ==
  /\ InitTask
  /\ RunIdle /\ ChunkerIdle /\ TrackersIdle /\ SectionIdle /\ ReaderIdle /\ ApiIdle

NextProcessChunk ==
  \/ TaskResponds
  \/ TaskWakes

\* One call of process_chunk.
SpecProcessChunk == InitProcessChunk /\ [][NextProcessChunk]_vars

InitSectionInfo ==
  /\ InitSection
  /\ RunIdle /\ ChunkerIdle /\ TrackersIdle /\ TaskIdle /\ ReaderIdle /\ ApiIdle

NextSectionInfo == SectionReturns

\* One call of extract_section_info.
SpecSectionInfo == InitSectionInfo /\ [][NextSectionInfo]_vars

InitUpload ==
  /\ InitReader
  /\ RunIdle /\ ChunkerIdle /\ TrackersIdle /\ TaskIdle /\ SectionIdle /\ ApiIdle

NextUpload ==
  \/ ReadDocument
  \/ CallChunkText
  \/ ChunkPage
  \/ ChunkParagraph
  \/ ChunkFinish
  \/ CallExtract
  \/ Start
  \/ \E c \in ChunkIds : Respond(c)
  \/ \E c \in ChunkIds : ChunkWakes(c)
  \/ GatherDone
  \/ PauseDone

\* A document is read, its pages are chunked and the obligations of the
\* chunks extracted.
SpecUpload == InitUpload /\ [][NextUpload]_vars

\* The application serving requests, with nothing else running.
InitApi ==
  /\ InitApp
  /\ RunIdle /\ ChunkerIdle /\ TrackersIdle /\ TaskIdle /\ SectionIdle /\ ReaderIdle

NextApi ==
  \/ UploadDocument
  \/ UploadAndCreateIssues
  \/ CreateIssueForObligation
  \/ CreateIssuesForObligations
  \/ JiraResponds
  \/ UpdateObligation
  \/ DeleteObligation
  \/ GetIssue
  \/ UpdateStatus
  \/ UpdateIssue
  \/ RemoveIssue

SpecApi == InitApi /\ [][NextApi]_vars

(***************************************************************************)
(* Vocabulary of the properties.                                           *)
(***************************************************************************)
\* lower-cased, trimmed
Normalized(text) == Strip(Lower(text))

\* Places <<c, p, k>> of the obligations retained in the results the chunk
\* tasks returned: obligation k of party p of ret[c].
Retained ==
  UNION {UNION {{<<c, p, k>> : k \in 1..Len(ret[c].parties[p].obligations)} :
                  p \in {q \in 1..Len(ret[c].parties) :
                           HasKey(ret[c].parties[q], "obligations")}} :
           c \in {d \in ChunkIds : HasKey(ret[d], "parties")}}

RetainedAt(x) == ret[x[1]].parties[x[2]].obligations[x[3]]

\* The parties of the merged result the run returned.
Merged == returned[1].parties

\* Places <<p, k>> of the obligations of the merged result.
MergedPlaces ==
  UNION {{<<p, k>> : k \in 1..Len(Merged[p].obligations)} : p \in 1..Len(Merged)}

\* The normalized obligation_text of every obligation retained in the chunk
\* results, and of every obligation of the merged result, by place.
RetainedTexts ==
  [x \in Retained |-> Normalized(RetainedAt(x).obligation_text)]

MergedTexts ==
  [x \in MergedPlaces |-> Normalized(Merged[x[1]].obligations[x[2]].obligation_text)]

\* No two places hold the same text.
NoTwoAlike(texts) ==
  \A x, y \in DOMAIN texts : x # y => texts[x] # texts[y]

\* The chunk an obligation of a result was extracted from: process_chunk
\* stamped it with the section of its chunk, and chunk c lies in section c.
SourceChunk(ob) == CHOOSE c \in ChunkIds : chunks[c].section_number = ob.section

\* Position of chunk c in the order of completion of the running batch.
CompletionRank(c) == CHOOSE k \in 1..Len(completed) : completed[k] = c

\* The tasks that came to line 89.
GaveUp == {c \in ChunkIds : Returned(c) /\ ret[c] = None}

\* A result the merge cannot take in: a party of it has no "obligations".
Unmergeable(result) ==
  /\ HasKey(result, "parties")
  /\ \E p \in 1..Len(result.parties) : ~HasKey(result.parties[p], "obligations")

\* The obligation lists of the party called name in the results, one after
\* the other.
RECURSIVE ObligationsOf(_, _)
ObligationsOf(name, parties) ==
  IF parties = <<>> THEN <<>>
  ELSE (IF Head(parties).name = name THEN Head(parties).obligations ELSE <<>>)
         \o ObligationsOf(name, Tail(parties))

RECURSIVE AllParties(_)
AllParties(all_results) ==
  IF all_results = <<>> THEN <<>>
  ELSE (IF HasKey(Head(all_results), "parties")
          THEN Head(all_results).parties ELSE <<>>)
         \o AllParties(Tail(all_results))

\* merged has one entry per party name of parties, holding the obligation
\* lists of the party one after the other.
OnePerParty(merged, parties) ==
  /\ \A p, q \in 1..Len(merged) : merged[p].name = merged[q].name => p = q
  /\ {merged[p].name : p \in 1..Len(merged)}
       = {parties[k].name : k \in 1..Len(parties)}
  /\ \A p \in 1..Len(merged) :
       merged[p].obligations = ObligationsOf(merged[p].name, parties)

\* Index of the first of the merged results that mentions the party.
FirstMention(name) ==
  CHOOSE k \in 1..Len(results) :
    /\ HasKey(results[k], "parties")
    /\ \E p \in 1..Len(results[k].parties) : results[k].parties[p].name = name
    /\ \A j \in 1..(k - 1) :
         ~ /\ HasKey(results[j], "parties")
           /\ \E p \in 1..Len(results[j].parties) : results[j].parties[p].name = name

(***************************************************************************)
(* C1.  No two obligations retained in the results of the chunk tasks, and *)
(* none in the merged result, have the same normalized obligation_text,    *)
(* whatever the interleaving of the tasks.                                 *)
(***************************************************************************)
C1_NoTwoRetainedAlike ==
  /\ NoTwoAlike(RetainedTexts)
  /\ pc = "done" => NoTwoAlike(MergedTexts)

\* Two tasks of one batch were answered the same text in different spellings;
\* the one that returned second came first in the list, and only one of the
\* two kept the obligation.
C1_Witness ==
  /\ Len(completed) >= 2
  /\ completed[1] = 2 /\ completed[2] = 1
  /\ HasKey(ret[1], "parties") /\ HasKey(ret[2], "parties")
  /\ ret[1].parties[1].obligations = <<>>
  /\ Len(ret[2].parties[1].obligations) = 1

(***************************************************************************)
(* C2.  Batches are strictly sequential: a task that has made its first    *)
(* LLM call belongs to a batch all of whose predecessors have every task   *)
(* returned.                                                               *)
(***************************************************************************)
C2_BatchesSequential ==
  \A c, d \in ChunkIds :
    (calls[c] > 0 /\ BatchNo(d) < BatchNo(c)) => Returned(d)

\* A task of the second batch is under way.
C2_Witness ==
  \E c \in ChunkIds : BatchNo(c) = 1 /\ calls[c] > 0 /\ ~Returned(c)

(***************************************************************************)
(* C3.  A chunk whose every attempt raises is attempted exactly            *)
(* MAX_RETRIES = 3 times and its task then returns None; a run with such   *)
(* a chunk still returns, and its merged result holds every obligation     *)
(* the other chunks' tasks retained.                                       *)
(***************************************************************************)
C3_RetryExhaustion ==
  /\ \A c \in ChunkIds :
       /\ calls[c] <= MAX_RETRIES
       /\ c \in GaveUp => calls[c] = MAX_RETRIES
  /\ (pc \in {"done", "raised"} /\ \E c \in GaveUp : ~nulls[c]) =>
       /\ pc = "done"
       /\ \A x \in Retained :
            \E y \in MergedPlaces :
              /\ Merged[y[1]].name = ret[x[1]].parties[x[2]].name
              /\ Merged[y[1]].obligations[y[2]] = RetainedAt(x)

(***************************************************************************)
(* C4.  A chunk answered the "null" sentinel is done at once: its task has *)
(* returned, without a further LLM call.                                   *)
(***************************************************************************)
C4_NullEndsChunk ==
  \A c \in ChunkIds : nulls[c] => (Returned(c) /\ calls[c] = 1)

C6_MergeByParty ==
  pc = "done" =>
    /\ OnePerParty(Merged, AllParties(results))
    /\ (Len(chunks) = 2 /\ Len(results) = 2) =>
         /\ Len(Merged) = 1
         /\ Merged[1].name = Buyer
         /\ Len(Merged[1].obligations) = 1
         /\ Normalized(Merged[1].obligations[1].obligation_text) = <<"p", "a", "y">>

\* The run over the two chunks answered "Buyer"/"Pay" and "buyer"/"pay "
\* returned, both tasks having returned a result.
C6_Witness ==
  /\ pc = "done"
  /\ Len(chunks) = 2
  /\ Len(results) = 2
  /\ Len(Merged) = 1

(***************************************************************************)
(* C7, as the claim has it.  Within a party of the merged result, the      *)
(* obligations of chunks of one batch stand in the order in which the      *)
(* tasks of those chunks completed.                                        *)
(***************************************************************************)
C7_CompletionOrder ==
  pc = "done" =>
    \A p \in 1..Len(Merged) :
      \A j, k \in 1..Len(Merged[p].obligations) :
        LET a == SourceChunk(Merged[p].obligations[j])
            b == SourceChunk(Merged[p].obligations[k])
        IN (j < k /\ a \in BatchOf(i) /\ b \in BatchOf(i))
             => CompletionRank(a) <= CompletionRank(b)

(***************************************************************************)
(* C7, amended.  Within a party of the merged result, the obligations      *)
(* stand in the order of their chunks in the input list, whatever the      *)
(* order in which the tasks of a batch completed.                          *)
(***************************************************************************)
C7_ChunkOrder ==
  pc = "done" =>
    \A p \in 1..Len(Merged) :
      \A j, k \in 1..Len(Merged[p].obligations) :
        j < k => SourceChunk(Merged[p].obligations[j])
                   <= SourceChunk(Merged[p].obligations[k])

\* A party holds obligations of two chunks of one batch, the later chunk
\* having completed first.
C7_Witness ==
  /\ pc = "done"
  /\ \E p \in 1..Len(Merged) :
       \E j, k \in 1..Len(Merged[p].obligations) :
         /\ j < k
         /\ SourceChunk(Merged[p].obligations[j]) \in BatchOf(i)
         /\ SourceChunk(Merged[p].obligations[k]) \in BatchOf(i)
         /\ CompletionRank(SourceChunk(Merged[p].obligations[j]))
              > CompletionRank(SourceChunk(Merged[p].obligations[k]))

(***************************************************************************)
(* C8.  Within a party of the merged result, an obligation of a chunk of   *)
(* an earlier batch stands before every obligation of a chunk of a later   *)
(* batch.                                                                  *)
(***************************************************************************)
C8_BatchOrder ==
  pc = "done" =>
    \A p \in 1..Len(Merged) :
      \A j, k \in 1..Len(Merged[p].obligations) :
        BatchNo(SourceChunk(Merged[p].obligations[j]))
            < BatchNo(SourceChunk(Merged[p].obligations[k]))
          => j < k

\* A party holds obligations of both batches.
C8_Witness ==
  /\ pc = "done"
  /\ \E p \in 1..Len(Merged) :
       \E j, k \in 1..Len(Merged[p].obligations) :
         BatchNo(SourceChunk(Merged[p].obligations[j]))
           < BatchNo(SourceChunk(Merged[p].obligations[k]))

(***************************************************************************)
(* C9.  The parties of the merged result stand in the order of their       *)
(* first mention in the merged results, not in alphabetical order.         *)
(***************************************************************************)
C9_PartyOrder ==
  pc = "done" =>
    \A p, q \in 1..Len(Merged) :
      p < q => FirstMention(Merged[p].name) < FirstMention(Merged[q].name)

\* "Buyer" stands before "Agent": it was met first.
C9_Witness ==
  /\ pc = "done"
  /\ Len(Merged) = 2
  /\ Merged[1].name = Buyer
  /\ Merged[2].name = Agent

(***************************************************************************)
(* C10.  Every chunk chunk_text produces has a text shorter than           *)
(* max_tokens * 4 characters, except a chunk made of one paragraph that    *)
(* is itself at least that long.                                           *)
(***************************************************************************)
C10_ChunkSizeBound ==
  \A k \in 1..Len(produced) :
    \/ Len(produced[k].text) < max_tokens * 4
    \/ /\ Len(produced_parts[k]) = 1
       /\ Len(produced_parts[k][1]) >= max_tokens * 4

\* chunk_text returned a chunk of several paragraphs that is one character
\* short of the cap, and a chunk of one paragraph that reaches the cap.
C10_Witness ==
  /\ at = "done"
  /\ \E k \in 1..Len(produced) :
       /\ Len(produced_parts[k]) >= 2
       /\ Len(produced[k].text) = max_tokens * 4 - 1
  /\ \E k \in 1..Len(produced) :
       /\ Len(produced_parts[k]) = 1
       /\ Len(produced[k].text) >= max_tokens * 4

(***************************************************************************)
(* Vocabulary of the properties of chunk_text.                             *)
(***************************************************************************)
\* The paragraph is a section header.
IsHeader(paragraph) == extract_section_info(paragraph) # None

\* The section in force after the paragraphs paras, from section on.
RECURSIVE SectionThrough(_, _)
SectionThrough(section, paras) ==
  IF paras = <<>> THEN section
  ELSE SectionThrough(SectionAfter(section, extract_section_info(Head(paras))),
                      Tail(paras))

\* The paragraphs of the chunks produced before chunk k, in order.
RECURSIVE ParagraphsBefore(_)
ParagraphsBefore(k) ==
  IF k <= 1 THEN <<>> ELSE ParagraphsBefore(k - 1) \o produced_parts[k - 1]

\* The nearest header preceding chunk k in the document, ('', '') if none.
NearestHeaderBefore(k) ==
  SectionThrough([number |-> <<>>, title |-> <<>>], ParagraphsBefore(k))

\* Chunk k holds no section header.
Headerless(k) ==
  \A j \in 1..Len(produced_parts[k]) : ~IsHeader(produced_parts[k][j])

(***************************************************************************)
(* C11.  A chunk that holds no section header is tagged with the number    *)
(* and title of the nearest header preceding it in the document, and with  *)
(* ('', '') when no header precedes it.                                    *)
(***************************************************************************)
C11_SectionPersistence ==
  \A k \in 1..Len(produced) :
    Headerless(k) =>
      /\ produced[k].section_number = NearestHeaderBefore(k).number
      /\ produced[k].section_title = NearestHeaderBefore(k).title

(***************************************************************************)
(* C12.  A chunk flushed because a paragraph of page p does not fit        *)
(* records page_number = p.                                                *)
(***************************************************************************)
C12_PageOfOverflow ==
  [][(at' = "pages" /\ Len(produced') > Len(produced))
       => produced'[Len(produced')].page_number = page_num]_vars

(***************************************************************************)
(* C13.  A paragraph at least max_tokens * 4 characters long is alone in   *)
(* its chunk, whole: the chunk holds no other paragraph and its text is    *)
(* the paragraph, whether the paragraph opens the document or comes upon   *)
(* a buffer that is not empty.                                             *)
(***************************************************************************)
C13_LongParagraphAlone ==
  /\ \A k \in 1..Len(produced) :
       \A j \in 1..Len(produced_parts[k]) :
         Len(produced_parts[k][j]) >= max_tokens * 4
           => /\ Len(produced_parts[k]) = 1
              /\ produced[k].text = Strip(produced_parts[k][j])
  /\ \A j \in 1..Len(parts) :
       Len(parts[j]) >= max_tokens * 4 => Len(parts) = 1

\* chunk_text returned a chunk of one long paragraph that opened the
\* document and another of one long paragraph that came upon a buffer.
C13_Witness ==
  /\ at = "done"
  /\ Len(produced) >= 3
  /\ Len(produced_parts[1][1]) >= max_tokens * 4
  /\ Len(produced_parts[2][1]) < max_tokens * 4
  /\ Len(produced_parts[3][1]) >= max_tokens * 4

(***************************************************************************)
(* Vocabulary of the properties of the tracker.                            *)
(***************************************************************************)
\* The calls of fn in the history h, by position.
CallsOf(h, fn) == {k \in 1..Len(h) : h[k].fn = fn}

\* Call k of h is an is_duplicate whose text, lower-cased and trimmed, is
\* that of an earlier is_duplicate of h.
TextSeenBefore(h, k) ==
  \E j \in CallsOf(h, "is_duplicate") :
    j < k /\ Normalized(h[j].arg) = Normalized(h[k].arg)

\* The first standardize_party_name of h with the key of call k.
FirstOfKey(h, k) ==
  CHOOSE j \in CallsOf(h, "standardize_party_name") :
    /\ PartyKey(h[j].arg) = PartyKey(h[k].arg)
    /\ \A l \in CallsOf(h, "standardize_party_name") :
         PartyKey(h[l].arg) = PartyKey(h[k].arg) => j <= l

\* The tracker call k of the history h finds.
Found(h, k) == IF k = 1 THEN NewTracker ELSE h[k - 1].after

(***************************************************************************)
(* C14.  is_duplicate returns False for a text whose lower-cased, trimmed  *)
(* form the tracker was not given before and True for every later text of  *)
(* the same form, whatever its casing and blanks; a call that returns True *)
(* leaves the tracker as it was, a call that returns False adds the key of *)
(* its text to seen_obligations and changes nothing else.                  *)
(***************************************************************************)
C14_IsDuplicateTwice ==
  \A r \in Runs :
    \A k \in CallsOf(history[r], "is_duplicate") :
      /\ history[r][k].out = TextSeenBefore(history[r], k)
      /\ history[r][k].out => history[r][k].after = history[r][k].before
      /\ ~history[r][k].out =>
           /\ Hash(Normalized(history[r][k].arg))
                \notin history[r][k].before.seen_obligations
           /\ history[r][k].after =
                [history[r][k].before EXCEPT !.seen_obligations =
                   @ \cup {Hash(Normalized(history[r][k].arg))}]

\* A run called is_duplicate("Pay") and then is_duplicate(" PAY ").
C14_Witness ==
  \E r \in Runs :
    /\ Len(history[r]) >= 2
    /\ history[r][1].fn = "is_duplicate" /\ history[r][2].fn = "is_duplicate"
    /\ history[r][1].arg = <<"P", "a", "y">>
    /\ history[r][2].arg = <<" ", "P", "A", "Y", " ">>
    /\ ~history[r][1].out /\ history[r][2].out

(***************************************************************************)
(* C15.  standardize_party_name returns, for every name of a key, the      *)
(* Title Case of the first name of that key the tracker was given; no call *)
(* changes or removes the canonical name stored for a key; names of        *)
(* different keys get different canonical names.                           *)
(***************************************************************************)
C15_CanonicalStable ==
  \A r \in Runs :
    /\ \A k \in CallsOf(history[r], "standardize_party_name") :
         /\ history[r][k].out = Title(history[r][FirstOfKey(history[r], k)].arg)
         /\ \A j \in CallsOf(history[r], "standardize_party_name") :
              PartyKey(history[r][j].arg) # PartyKey(history[r][k].arg)
                => history[r][j].out # history[r][k].out
    /\ \A k \in 1..Len(history[r]) :
         \A key \in DOMAIN history[r][k].before.party_names :
           /\ key \in DOMAIN history[r][k].after.party_names
           /\ history[r][k].after.party_names[key]
                = history[r][k].before.party_names[key]

\* A run standardized "Acme Corp", then " ACME CORP", then "Acme".
C15_Witness ==
  \E r \in Runs :
    /\ CallsOf(history[r], "standardize_party_name") = 1..3
    /\ history[r][1].arg = <<"A", "c", "m", "e", " ", "C", "o", "r", "p">>
    /\ history[r][2].arg = <<" ", "A", "C", "M", "E", " ", "C", "O", "R", "P">>
    /\ history[r][2].out = <<"A", "c", "m", "e", " ", "C", "o", "r", "p">>
    /\ history[r][3].out = <<"A", "c", "m", "e">>

(***************************************************************************)
(* C20.  Each run has a tracker of its own: two runs never refer to the    *)
(* same ObligationTracker; every call of a run finds its tracker as the    *)
(* previous call of the same run left it (new for the first), however the  *)
(* calls of the runs interleave; so a text is suppressed only when the     *)
(* same run met it before, and a name gets the canonical name of the first *)
(* name of its key in the same run.                                        *)
(***************************************************************************)
C20_TrackerPerRun ==
  /\ \A r, q \in Runs :
       (r # q /\ tracker_of[r] # 0) => tracker_of[r] # tracker_of[q]
  /\ \A r \in Runs :
       /\ \A k \in 1..Len(history[r]) :
            history[r][k].before = Found(history[r], k)
       /\ tracker_of[r] # 0 =>
            objects[tracker_of[r]] = Found(history[r], Len(history[r]) + 1)
       /\ \A k \in CallsOf(history[r], "is_duplicate") :
            history[r][k].out => TextSeenBefore(history[r], k)
       /\ \A k \in CallsOf(history[r], "standardize_party_name") :
            history[r][k].out = Title(history[r][FirstOfKey(history[r], k)].arg)

\* Each of the two runs was given the text "Pay", one as " PAY ", as the
\* first text of its tracker, and each kept it.
C20_Witness ==
  /\ Len(history[1]) >= 1 /\ Len(history[2]) >= 1
  /\ history[1][1].fn = "is_duplicate" /\ history[2][1].fn = "is_duplicate"
  /\ history[1][1].arg = <<"P", "a", "y">>
  /\ history[2][1].arg = <<" ", "P", "A", "Y", " ">>
  /\ ~history[1][1].out /\ ~history[2][1].out

(***************************************************************************)
(* Vocabulary of the properties of the batches.                            *)
(***************************************************************************)
\* The tasks that have begun and not returned.
InFlight == {c \in ChunkIds : task[c].st \in {"awaiting", "sleeping"}}

\* Number of batches of the run: total_batches of line 97.
Batches == (Len(chunks) + BATCH_SIZE - 1) \div BATCH_SIZE

(***************************************************************************)
(* C16.  Every obligation of a result a chunk task returned has the        *)
(* section_number of the task's chunk as its section, whatever section the *)
(* answer gave it and in whatever order the tasks completed.               *)
(***************************************************************************)
C16_SectionStamp ==
  \A x \in Retained : RetainedAt(x).section = chunks[x[1]].section_number

\* The fourth chunk completed before the third, and both results hold an
\* obligation, which the answer had given the section "0".
C16_Witness ==
  /\ Len(completed) >= 2
  /\ completed[1] = 4 /\ completed[2] = 3
  /\ \E x, y \in Retained :
       /\ x[1] = 3 /\ y[1] = 4
       /\ RetainedAt(x).section = <<"3">> /\ RetainedAt(y).section = <<"4">>

(***************************************************************************)
(* C17.  The run pauses after every batch but the last: while it pauses    *)
(* every task of the batches begun has returned, no task of a later batch  *)
(* has begun and a batch is left; the batch begun at i comes after i /     *)
(* BATCH_SIZE pauses; a run over B batches that is over has made           *)
(* max(B - 1, 0) pauses.                                                   *)
(***************************************************************************)
C17_PausesBetweenBatches ==
  /\ pc = "pause" =>
       /\ pauses = i \div BATCH_SIZE + 1
       /\ i + BATCH_SIZE < Len(chunks)
       /\ \A c \in ChunkIds :
            /\ c <= i + BATCH_SIZE => Returned(c)
            /\ c > i + BATCH_SIZE => (task[c].st = "pending" /\ calls[c] = 0)
  /\ pc = "gather" => pauses = i \div BATCH_SIZE
  /\ pc \in {"done", "raised"} =>
       pauses = IF Batches >= 1 THEN Batches - 1 ELSE 0

\* A run over two batches is over.
C17_Witness == pc = "done" /\ Batches = 2 /\ pauses = 1

(***************************************************************************)
(* C18.  The batches are the consecutive runs of BATCH_SIZE = 5 chunks of  *)
(* the list, the last one possibly shorter; a chunk is processed in its    *)
(* batch and in no other: its task has not begun before, and has returned  *)
(* after; never are more than 5 tasks in flight; when the run is over      *)
(* every chunk has been processed.                                         *)
(***************************************************************************)
C18_BatchesOfFive ==
  /\ i % BATCH_SIZE = 0
  /\ pc \in {"gather", "pause"} =>
       /\ i < Len(chunks)
       /\ Cardinality(BatchOf(i)) =
            IF i + BATCH_SIZE < Len(chunks) THEN BATCH_SIZE ELSE Len(chunks) - i
       /\ BatchOf(i) = {c \in ChunkIds : BatchNo(c) = i \div BATCH_SIZE}
  /\ \A c \in ChunkIds :
       /\ (pc # "start" /\ BatchNo(c) < i \div BATCH_SIZE) => Returned(c)
       /\ (pc = "start" \/ BatchNo(c) > i \div BATCH_SIZE)
            => (task[c].st = "pending" /\ calls[c] = 0)
  /\ Cardinality(InFlight) <= BATCH_SIZE
  /\ pc \in {"done", "raised"} => \A c \in ChunkIds : Returned(c)

\* Five tasks are in flight and a sixth chunk waits for the next batch.
C18_Witness ==
  /\ Cardinality(InFlight) = 5
  /\ Len(chunks) = 6
  /\ task[6].st = "pending"

(***************************************************************************)
(* C19.  chunk_text returns no chunk for a document with no page or with   *)
(* blank lines only; extract_obligation_from_chunks on no chunk starts no  *)
(* task, hence makes no LLM call, and returns [{"parties": []}]; whatever  *)
(* it is given, what it returns is a list of one object.                   *)
(***************************************************************************)
C19_EmptyInput ==
  /\ (at = "done" /\ \A pg \in 1..Len(pages) : Paragraphs(pages[pg]) = <<>>)
       => produced = <<>>
  /\ (pc # "idle" /\ Len(chunks) = 0) =>
       /\ pc \in {"start", "done"}
       /\ task = <<>> /\ calls = <<>>
       /\ pc = "done" => returned = <<[parties |-> <<>>]>>
  /\ pc = "done" =>
       /\ Len(returned) = 1
       /\ DOMAIN returned[1] = {"parties"}

\* chunk_text returned from a document of several pages of blank lines.
C19_Witness ==
  /\ at = "done"
  /\ Len(pages) >= 2
  /\ produced = <<>>

(***************************************************************************)
(* C21.  The run returns: it never ends by raising, and while it waits for *)
(* a batch either a task of the batch is waiting for its LLM call or for   *)
(* its backoff sleep to end, or every task has returned and gather resumes *)
(* the run; no chunk gets more than MAX_RETRIES = 3 LLM calls, and a chunk *)
(* whose first attempt gave a result got exactly 1.                        *)
(***************************************************************************)
C21_ReturnsWithinThreeCalls ==
  /\ pc # "raised"
  /\ pc = "gather" =>
       \/ BatchSettled(i)
       \/ \E c \in BatchOf(i) : task[c].st \in {"awaiting", "sleeping"}
  /\ \A c \in ChunkIds :
       /\ calls[c] <= MAX_RETRIES
       /\ (Returned(c) /\ ret[c] # None /\ task[c].attempt = 0) => calls[c] = 1

(***************************************************************************)
(* C26.  Whatever JSON value the LLM returns for a chunk, the run does not *)
(* raise: a response is retried or discarded by its task, or the task      *)
(* returns a result the merge can take in, every party of it having its    *)
(* "obligations".                                                          *)
(***************************************************************************)
C26_EveryResponseMerges ==
  /\ \A c \in ChunkIds : Returned(c) => ~Unmergeable(ret[c])
  /\ pc \in {"start", "gather", "pause", "done"}

(***************************************************************************)
(* C24.  When the run has returned, every key recorded in the tracker's    *)
(* seen_obligations is the key of exactly one obligation of the merged     *)
(* result: no text was suppressed, or recorded by an attempt that raised   *)
(* afterwards, without an obligation of that text being retained.          *)
(***************************************************************************)
C24_SeenIsRetained ==
  pc = "done" =>
    \A text_hash \in tracker.seen_obligations :
      Cardinality({x \in MergedPlaces :
                     TextHash(Merged[x[1]].obligations[x[2]].obligation_text)
                       = text_hash}) = 1

(***************************************************************************)
(* C28.  Every party of the merged result has at least one obligation: a   *)
(* party all of whose obligations were suppressed as duplicates is not in  *)
(* the merged result.                                                      *)
(***************************************************************************)
C28_NoEmptyParty ==
  pc = "done" => \A p \in 1..Len(Merged) : Merged[p].obligations # <<>>

(***************************************************************************)
(* Vocabulary of the properties of the completion orders.                  *)
(***************************************************************************)
\* The (party name, obligation_text, section) triples of a merged result.
Triples(merged) ==
  UNION {{<<merged[p].name, merged[p].obligations[k].obligation_text,
            merged[p].obligations[k].section>> :
            k \in 1..Len(merged[p].obligations)} : p \in 1..Len(merged)}

\* The keys and the name (lower-cased, trimmed) of every party of a result.
Shape(parties) ==
  [p \in 1..Len(parties) |->
     <<DOMAIN parties[p], PartyKey(parties[p].name)>>]

\* The response the LLM gave for chunk c, whose task returned a result.
ResponseOf(c) ==
  CHOOSE d \in Answers(c) : Shape(d.json.parties) = Shape(ret[c].parties)

\* The results so far and the tracker, after the attempt a returned.
TakeIn(acc, a) ==
  [results |-> Append(acc.results, a.result), tracker |-> a.tracker]

\* The results of the tasks of chunks c, c + 1, ... when each task runs from
\* its response to its return before the next one does, in the order of the
\* list.
RECURSIVE InListOrder(_, _)
InListOrder(c, acc) ==
  IF c > Len(chunks) THEN acc
  ELSE InListOrder(
         c + 1,
         TakeIn(acc, Attempt(chunks[c], acc.tracker, [content |-> ResponseOf(c)])))

\* The merged result of the run whose tasks complete in the order of the
\* list.
MergedInListOrder ==
  MergeResults(
    [raised |-> FALSE, merged |-> <<>>],
    InListOrder(1, [results |-> <<>>, tracker |-> NewTracker]).results).merged

(***************************************************************************)
(* C25.  With one response per chunk, each giving a result, the (party     *)
(* name, obligation_text, section) triples of the merged result are those  *)
(* of the run whose tasks complete in the order of the list: they are the  *)
(* same for every order in which the tasks of a batch complete.            *)
(***************************************************************************)
C25_SameTriplesAnyOrder ==
  (pc = "done" /\ \A c \in ChunkIds : calls[c] = 1 /\ ret[c] # None) =>
    Triples(Merged) = Triples(MergedInListOrder)

(***************************************************************************)
(* Vocabulary of the properties of the suppression of duplicates.          *)
(***************************************************************************)
\* The chunks whose task returned a result.
WithResult == {c \in ChunkIds : Returned(c) /\ HasKey(ret[c], "parties")}

\* The normalized texts of the obligations of a response, whatever their
\* party.
OfferedIn(parties) ==
  UNION {{Normalized(parties[p].obligations[k].obligation_text) :
            k \in 1..Len(parties[p].obligations)} :
           p \in {q \in 1..Len(parties) : HasKey(parties[q], "obligations")}}

\* The normalized texts the response for chunk c carried, and those of them
\* the result of its task retained.
Offered(c) == OfferedIn(ResponseOf(c).json.parties)

Kept(c) == OfferedIn(ret[c].parties)

\* The is_duplicate checks of the task of c on its response ran before those
\* of the task of d, a chunk of the running batch: c is of an earlier batch,
\* or its task got its response, and returned, first.
CheckedBefore(c, d) ==
  \/ BatchNo(c) < BatchNo(d)
  \/ BatchNo(c) = BatchNo(d) /\ CompletionRank(c) < CompletionRank(d)

\* No chunk checked before d carried the text: the check of d is the first.
FirstToCheck(d, text) ==
  \A b \in WithResult \ {d} : CheckedBefore(b, d) => text \notin Offered(b)

RECURSIVE Flatten(_)
Flatten(seqs) ==
  IF seqs = <<>> THEN <<>> ELSE Head(seqs) \o Flatten(Tail(seqs))

\* The lines of a page that hold something else than blanks, in order.
NonBlankLines(page) ==
  [k \in 1..Cardinality({j \in 1..Len(SplitLines(page)) :
                           \E n \in 1..Len(SplitLines(page)[j]) :
                             SplitLines(page)[j][n] \notin Whitespace}) |->
     SplitLines(page)[
       CHOOSE j \in 1..Len(SplitLines(page)) :
         /\ \E n \in 1..Len(SplitLines(page)[j]) :
              SplitLines(page)[j][n] \notin Whitespace
         /\ Cardinality({h \in 1..j :
                           \E n \in 1..Len(SplitLines(page)[h]) :
                             SplitLines(page)[h][n] \notin Whitespace}) = k]]

(***************************************************************************)
(* C27.  chunk_text neither loses nor duplicates text: when it returns,    *)
(* the paragraphs of the chunks, chunk after chunk, are the non-blank      *)
(* lines of the pages, page after page and line after line, each once; the *)
(* text of a chunk is its paragraphs joined by newlines, trimmed.          *)
(***************************************************************************)
C27_NoTextLostOrDuplicated ==
  at = "done" =>
    /\ Flatten(produced_parts)
         = Flatten([p \in 1..Len(pages) |-> NonBlankLines(pages[p])])
    /\ Len(produced) = Len(produced_parts)
    /\ \A k \in 1..Len(produced) :
         produced[k].text = Strip(JoinLines(produced_parts[k]))

\* chunk_text has returned two chunks or more, one of them of several
\* paragraphs, from a document of several pages.
C27_Witness ==
  /\ at = "done"
  /\ Len(produced) >= 2
  /\ \E k \in 1..Len(produced) : Len(produced_parts[k]) >= 2
  /\ Len(pages) >= 2

(***************************************************************************)
(* Vocabulary of the properties of the section headers.                    *)
(***************************************************************************)
\* The labels of a section header, in lower case.
LabelsInLowerCase ==
  {<<"s", "e", "c", "t", "i", "o", "n">>,
   <<"a", "r", "t", ".">>,
   <<"a", "r", "t", "i", "c", "l", "e">>}

\* What follows the label of a stripped line, the label being optional and
\* of any casing: no label is a prefix of another.
AfterLabel(stripped) ==
  IF \E label \in LabelsInLowerCase : StartsWith(Lower(stripped), label)
    THEN Drop(stripped,
              Len(CHOOSE label \in LabelsInLowerCase :
                    StartsWith(Lower(stripped), label)))
    ELSE stripped

\* The numeral and the title of a line that is a section header: an
\* optional label of any casing, a dotted numeral, an optional title; None
\* for any other line.
HeaderOf(line) == NumeralAndTitle(Strip(AfterLabel(Strip(line))))

(***************************************************************************)
(* C22.  extract_section_info recognizes a section header in any casing of *)
(* its label and without a label: it returns the numeral and the title of  *)
(* a line made of an optional label (Section, Art., Article), a dotted     *)
(* numeral and an optional title, and None for every other line.           *)
(***************************************************************************)
C22_HeaderAnyCasing ==
  info # Pending => info = HeaderOf(line_text)

(***************************************************************************)
(* Vocabulary of the properties of the backoff.                            *)
(***************************************************************************)
\* Number of times the call did e.
Count(e) == Cardinality({k \in 1..Len(events) : events[k] = e})

(***************************************************************************)
(* C30.  In process_chunk a backoff sleep follows every attempt that       *)
(* raises, the last one included, and nothing else: an attempt that ends   *)
(* without raising (a result, or the "null" sentinel) is followed by no    *)
(* sleep.  A call all of whose attempts raise sleeps 3 times before it     *)
(* returns None.                                                           *)
(***************************************************************************)
C30_BackoffAfterEveryRaise ==
  /\ \A k \in 1..Len(events) :
       /\ events[k] = "raise" => k < Len(events) /\ events[k + 1] = "sleep"
       /\ events[k] = "sleep" => k > 1 /\ events[k - 1] = "raise"
  /\ task_at = "sleep" <=> (events # <<>> /\ events[Len(events)] = "sleep")
  /\ (task_at = "returned" /\ task_ret = None /\ Count("null") = 0) =>
       /\ Count("call") = MAX_RETRIES
       /\ Count("raise") = MAX_RETRIES
       /\ Count("sleep") = 3

\* Every attempt of the call raised, the third one included: it slept 3
\* times and returned None.
C30_Witness ==
  /\ task_at = "returned"
  /\ task_ret = None
  /\ events = <<"call", "raise", "sleep", "call", "raise", "sleep",
                "call", "raise", "sleep", "none">>

(***************************************************************************)
(* Vocabulary of the properties of the reading of documents.               *)
(***************************************************************************)
\* The content type is none of those extract_text_from_document reads, or
\* the library that reads it raises on the bytes of the file.
CannotBeRead ==
  \/ content_type \notin {PDF, DOCX, DOCX_LONG}
  \/ content_type = PDF /\ FitzPages(file).raised
  \/ content_type \in {DOCX, DOCX_LONG} /\ DocxParagraphs(file).raised

(***************************************************************************)
(* C23.  extract_text_from_document never raises to its caller; for a      *)
(* content type it does not read and for a file the PDF or DOCX library    *)
(* raises on, it returns no page; chunk_text then returns no chunk, and    *)
(* extract_obligation_from_chunks makes no LLM call and returns a result   *)
(* without an obligation, [{"parties": []}], instead of failing.           *)
(***************************************************************************)
C23_UnreadableGivesNothing ==
  /\ stage # "raised"
  /\ (stage \notin {"idle", "ready"} /\ CannotBeRead) =>
       /\ document_pages = <<>>
       /\ pages = <<>>
       /\ produced = <<>>
       /\ chunks = <<>>
       /\ pc \in {"idle", "start", "done"}
       /\ pc = "done" => returned = <<[parties |-> <<>>]>>

\* A damaged PDF file has been read, chunked and extracted: the run has
\* returned.
C23_Witness ==
  /\ stage = "extracting"
  /\ pc = "done"
  /\ content_type = PDF
  /\ file.format = "pdf"
  /\ file.damaged
  /\ file.texts # <<>>


(***************************************************************************)
(* Vocabulary of the properties of the application.                        *)
(***************************************************************************)
\* The requests to endpoint op that have been answered.
Answered(op) == {r \in 1..Len(req) : req[r].op = op /\ req[r].at = "done"}

\* The number of obligations in a list of extraction results.
ObligationCount(obligations_data) == Len(OfResults(obligations_data))

\* ceil(n / d) for a positive d
Ceil(n, d) == (n + d - 1) \div d

(***************************************************************************)
(* C36.  upload_document paginates obligations: total_obligations equals   *)
(* the number of obligations extracted from the document, the returned     *)
(* obligations hold at most page_size obligations, and total_pages =       *)
(* ceil(total_obligations / page_size).                                    *)
(***************************************************************************)
C36_PaginatesObligations ==
  \A r \in Answered("upload_document") :
    LET body == req[r].response.body
    IN  /\ req[r].response.status = 200
        /\ body.total_obligations = ObligationCount(req[r].all_obligations)
        /\ ObligationCount(body.obligations) <= req[r].page_size
        /\ body.total_pages = Ceil(body.total_obligations, req[r].page_size)


\* The service called by the handler of request r reported a failure.
Failed(r) ==
  IF req[r].op = "remove_issue" THEN ~Get(req[r].result, "success", FALSE)
  ELSE HasKey(req[r].result, "error")

\* The request r to update an issue carried no update data.
NoUpdateData(r) == DOMAIN NotNone(req[r].issue_update) = {}

(***************************************************************************)
(* C35.  The issue endpoints report a backend error payload with their own *)
(* status code: get_issue responds 404 when the looked-up issue carries an *)
(* error, and update_status, update_issue and remove_issue respond 400 on  *)
(* a failed operation or missing update data; none of these is turned into *)
(* a 500.                                                                  *)
(***************************************************************************)
C35_OwnStatusCode ==
  /\ \A r \in Answered("get_issue") : Failed(r) => req[r].response.status = 404
  /\ \A r \in Answered("update_status") : Failed(r) => req[r].response.status = 400
  /\ \A r \in Answered("update_issue") :
       (NoUpdateData(r) \/ Failed(r)) => req[r].response.status = 400
  /\ \A r \in Answered("remove_issue") : Failed(r) => req[r].response.status = 400


\* The mock issues created before request r was received that no earlier
\* request has deleted.
MockIssuesBefore(r) ==
  {created[n].issue : n \in {m \in 1..Len(created) :
     /\ created[m].backend = "mock"
     /\ created[m].request < r
     /\ ~\E d \in 1..(r - 1) :
          /\ req[d].op = "remove_issue"
          /\ req[d].issue_id = created[m].issue.id
          /\ req[d].response.status = 200}}

\* Request r names, with the default tool, an issue of the mock backend
\* that exists when it is received.
OfMockIssue(r) ==
  /\ ~settings.credentials
  /\ req[r].project_tool = ""
  /\ \E issue \in MockIssuesBefore(r) : issue.id = req[r].issue_id

(***************************************************************************)
(* C34.  With Jira credentials unset the application functions on the mock *)
(* backend: an issue created through create_obligation_issue is afterwards *)
(* returned by get_issue_details for its id, can be updated through        *)
(* update_issue_status, and stays retrievable until delete_issue removes   *)
(* it.                                                                     *)
(***************************************************************************)
C34_MockBackendKeepsIssues ==
  /\ \A r \in Answered("get_issue") :
       OfMockIssue(r) => /\ req[r].result # None
                         /\ ~HasKey(req[r].result, "error")
                         /\ req[r].result.id = req[r].issue_id
  /\ \A r \in Answered("update_status") :
       OfMockIssue(r) => /\ req[r].result # None
                         /\ ~HasKey(req[r].result, "error")
  /\ \A r \in Answered("remove_issue") :
       OfMockIssue(r) => req[r].result.success


\* The obligation stored under obligation_id now, None when there is none.
Stored(obligation_id) == get_obligation_by_id(obligations_store, obligation_id)

\* The issues request r made a backend create.
CreatedFor(r) == {n \in 1..Len(created) : created[n].request = r}

\* Item j of the upload served by request r got an issue with a key.
GotIssue(r, j) ==
  /\ r \in Answered("upload_and_create_issues")
  /\ j \in 1..Len(req[r].results)
  /\ HasKeyNoError(req[r].results[j].issue_response)

(***************************************************************************)
(* C32.  After upload_and_create_issues has successfully created an issue  *)
(* with a key for an extracted obligation, the stored obligation for it    *)
(* has jira_issue_id equal to that key, so a later                         *)
(* create_issue_for_obligation on it reports the existing issue instead of *)
(* creating a second one.                                                  *)
(***************************************************************************)
C32_UploadRecordsIssueKey ==
  \A r \in 1..Len(req) : \A j \in 1..Len(req[r].results) :
    GotIssue(r, j) =>
      LET id == req[r].stored_obligations[j].id
      IN  /\ Stored(id) # None =>
               Stored(id).jira_issue_id = req[r].results[j].issue_response.key
          /\ \A later \in Answered("create_issue_for_obligation") :
               (later > r /\ req[later].obligation_id = id) => CreatedFor(later) = {}


\* The obligation stored under obligation_id after the step, None when
\* there is none.
StoredNext(obligation_id) == get_obligation_by_id(obligations_store', obligation_id)

(***************************************************************************)
(* C33.  Once a stored obligation has a jira_issue_id, its obligation_text *)
(* never changes: update_obligation_endpoint rejects with status 400 any   *)
(* update whose obligation_text differs from the stored text and leaves    *)
(* the stored obligation unchanged, and no operation ever clears a         *)
(* jira_issue_id that has been set.                                        *)
(***************************************************************************)
C33_TextKeptOnceIssued ==
  [][\A k \in 1..Len(obligations_store) :
       (/\ obligations_store[k].jira_issue_id # None
        /\ StoredNext(obligations_store[k].id) # None) =>
          /\ StoredNext(obligations_store[k].id).obligation_text
               = obligations_store[k].obligation_text
          /\ StoredNext(obligations_store[k].id).jira_issue_id # None
          /\ \A r \in 1..Len(req') :
               (/\ r > Len(req)
                /\ req'[r].op = "update_obligation_endpoint"
                /\ req'[r].obligation_id = obligations_store[k].id
                /\ HasKey(req'[r].update_data, "obligation_text")
                /\ req'[r].update_data.obligation_text
                     # obligations_store[k].obligation_text) =>
                  /\ req'[r].response.status = 400
                  /\ obligations_store' = obligations_store]_vars


\* The issues the backends created for the obligation obligation_id on
\* requests to create_issue_for_obligation and create_issues_for_obligations.
IssuesOnRequestFor(obligation_id) ==
  {n \in 1..Len(created) :
     /\ created[n].obligation_id = obligation_id
     /\ req[created[n].request].op \in
          {"create_issue_for_obligation", "create_issues_for_obligations"}}

\* The ids of the obligations issues were created for.
Issued == {created[n].obligation_id : n \in 1..Len(created)}

(***************************************************************************)
(* C31.  At most one backend issue is ever created per stored obligation   *)
(* through create_issue_for_obligation and create_issues_for_obligations:  *)
(* a request for an obligation that already has a jira_issue_id creates    *)
(* nothing and reports the existing id, and this holds for every           *)
(* interleaving of concurrent requests for the same obligation.            *)
(***************************************************************************)
C31_OneIssuePerObligation ==
  \A id \in Issued : Cardinality(IssuesOnRequestFor(id)) <= 1

=============================================================================
